---- MODULE Spec2Model ----
(***************************************************************************)
(* Model of src/src/example_mcp_client.py: the MCPClient wrapper (its      *)
(* connect() async context manager and its six facade operations), and     *)
(* main() with the four demos and the command loop of interactive_mode;    *)
(* and of src/src/scripts/model_ndfc_response_vrf_attachments.py: the      *)
(* validators of the VRF-attachments response schema.                      *)
(* Spec is the client used by any callers; Main is one run of main();      *)
(* Schema is one validation of a LanAttachment or of a response.           *)
(***************************************************************************)
EXTENDS Naturals, Integers, Sequences, FiniteSets, TLC

\* ------------------------------------------------------------------ bounds
\* number of times connect() is invoked on the one client instance
MaxScopes == 2

Scopes == 1..MaxScopes

\* Optional[...] of Python: None, or a value
None == [some |-> FALSE]
Some(x) == [some |-> TRUE, val |-> x]

\* ------------------------------------------------------- values on the wire
\* longest list of items the peer puts in one response
MaxItems == 2

\* tool names, prompt names and resource URIs callers pass
Names == {"echo", "list_files"}
\* Dict[str, Any] arguments: every mapping from some of the keys to the values
Keys == {"msg", "path"}
Vals == {"hello"}
ArgMaps == UNION {[S -> Vals] : S \in SUBSET Keys}
EmptyMap == << >>
\* what a caller may pass as "arguments": nothing (the default None) or a mapping
ArgInputs == {None} \cup {Some(m) : m \in ArgMaps}

\* a pydantic model object of the mcp package: its class and its field values
Obj(cls, fields) == [cls |-> cls, fields |-> fields]
SeqsUpTo(S, n) == UNION {[1..k -> S] : k \in 0..n}

ToolObjs == {Obj("Tool", [name |-> n, description |-> Some("d")]) : n \in Names}
ResourceObjs == {Obj("Resource", [uri |-> n, name |-> None]) : n \in Names}
PromptObjs == {Obj("Prompt", [name |-> n, description |-> None]) : n \in Names}
ContentObjs == {Obj("TextContent", [type |-> "text", text |-> "hello"]),
                Obj("ImageContent", [type |-> "image", data |-> "aGk="])}
ResourceContentObjs == {Obj("TextResourceContents", [uri |-> "file:///a", text |-> "hello"])}
MessageObjs == {Obj("PromptMessage", [role |-> "user", content |-> "hello"])}

\* what awaiting a ClientSession request ends with: the peer's result object, or
\* an exception raised by the session
Result(o) == [kind |-> "result", val |-> o]
Fault(e) == [kind |-> "fault", err |-> e]
Faults == {Fault(e) : e \in {"RemoteCallError", "NotFoundError"}}
ListToolsResponses == {Result(Obj("ListToolsResult", [tools |-> l])) : l \in SeqsUpTo(ToolObjs, MaxItems)} \cup Faults
ListResourcesResponses == {Result(Obj("ListResourcesResult", [resources |-> l])) : l \in SeqsUpTo(ResourceObjs, MaxItems)} \cup Faults
ListPromptsResponses == {Result(Obj("ListPromptsResult", [prompts |-> l])) : l \in SeqsUpTo(PromptObjs, MaxItems)} \cup Faults
CallToolResponses == {Result(Obj("CallToolResult", [content |-> l, isError |-> b])) : l \in SeqsUpTo(ContentObjs, MaxItems), b \in BOOLEAN} \cup Faults
ReadResourceResponses == {Result(Obj("ReadResourceResult", [contents |-> l])) : l \in SeqsUpTo(ResourceContentObjs, MaxItems)} \cup Faults
GetPromptResponses == {Result(Obj("GetPromptResult", [description |-> d, messages |-> l])) : d \in {None, Some("d")}, l \in SeqsUpTo(MessageObjs, MaxItems)} \cup Faults

VARIABLES
    session,    \* MCPClient.session: None or Some(c), the ClientSession made by connect() call c
    pc,         \* pc[c]: where the generator of connect() call c is suspended
    sstate,     \* sstate[c]: state of the ClientSession of call c: "NONE", "INIT", "READY", "CLOSED"
    acquired,   \* acquired[c]: times stdio_client of call c handed out its streams
    released,   \* released[c]: times stdio_client of call c released its streams
    how,        \* how[c]: the way call c left "async with client.connect()" ("" while it has not)
    again,      \* again[c]: what calling __aexit__ of call c's context manager once more, after it finished, did: "no" (not called), "returned", "raised"
    overlapped, \* history: some connect() was called while another connect scope was not yet finished
    call,       \* the facade operation a caller task has in progress or has last finished
    server_params, \* MCPClient.server_params: how to launch the server
    mpc,        \* where the task that runs main() is ("off": main() is not running)
    line,       \* interactive_mode: None, or Some(l), the line input() returned last
    issued,     \* facade methods main() has called since it went to its present step or command
    printed,    \* the lines main() has printed since it went to its present step or command
    outstanding, \* requests main() has sent to the session that have not ended yet
    eof,        \* standard input is exhausted: input() has raised EOFError
    vinput,     \* schema: the model class and the data given to it for validation
    vpc,        \* schema: the field whose validator runs next, and the VRF entry and attachment it is in
    partial,    \* schema: what the validators have returned so far
    errors,     \* schema: the errors the validators have raised so far, in order
    verdict     \* schema: how the validation ended: the model instance, or the rejection

scopeVars == <<pc, sstate, acquired, released, how, again, overlapped>>
driverVars == <<mpc, line, issued, printed, outstanding, eof>>
schemaVars == <<vinput, vpc, partial, errors, verdict>>
vars == <<session, pc, sstate, acquired, released, how, again, overlapped, call, server_params,
          mpc, line, issued, printed, outstanding, eof,
          vinput, vpc, partial, errors, verdict>>

\* StdioServerParameters(command="python", args=["-m", "your_mcp_server_module"], env=None)
StdioServerParameters ==
    [command |-> "python", args |-> <<"-m", "your_mcp_server_module">>, env |-> None]

\* MCPClient.__init__: the parameters are kept, no session; no connect() call made yet
ClientInit ==
    /\ server_params = StdioServerParameters
    /\ session = None
    /\ pc = [c \in Scopes |-> "new"]
    /\ sstate = [c \in Scopes |-> "NONE"]
    /\ acquired = [c \in Scopes |-> 0]
    /\ released = [c \in Scopes |-> 0]
    /\ how = [c \in Scopes |-> ""]
    /\ again = [c \in Scopes |-> "no"]
    /\ overlapped = FALSE
    /\ call = [st |-> "idle"]

\* nothing is being validated
Position(at, vrf, att) == [at |-> at, vrf |-> vrf, att |-> att]
NothingValidated == [att |-> << >>, atts |-> <<>>, vrfs |-> <<>>, top |-> << >>]
SchemaOff ==
    /\ vinput = [model |-> "none"]
    /\ vpc = Position("off", 0, 0)
    /\ partial = NothingValidated
    /\ errors = <<>>
    /\ verdict = [st |-> "none"]

\* main() is not running
DriverOff ==
    /\ mpc = "off"
    /\ line = None
    /\ issued = 0
    /\ printed = <<>>
    /\ outstanding = 0
    /\ eof = FALSE

\* the client alone, used by callers that are not main()
Init ==
    /\ ClientInit
    /\ DriverOff
    /\ SchemaOff

\* ------------------------------------------------------------- connect()

\* the c-th "async with client.connect()" is entered: the generator runs to line 49 and
\* awaits stdio_client(...).__aenter__
connect_call(c) ==
    /\ pc[c] = "new"
    /\ \A d \in Scopes : d < c => pc[d] # "new"
    /\ pc' = [pc EXCEPT ![c] = "L49"]
    /\ overlapped' = (overlapped \/ \E d \in Scopes : pc[d] \notin {"new", "done"})
    /\ UNCHANGED <<session, sstate, acquired, released, how, again, call, server_params>>

\* line 49 succeeds: the streams are handed out; line 51 builds the ClientSession
\* and awaits its __aenter__
stdio_client_ok(c) ==
    /\ pc[c] = "L49"
    /\ acquired' = [acquired EXCEPT ![c] = @ + 1]
    /\ sstate' = [sstate EXCEPT ![c] = "INIT"]
    /\ pc' = [pc EXCEPT ![c] = "L51"]
    /\ UNCHANGED <<session, released, how, again, overlapped, call, server_params>>

\* line 49 raises (the transport cannot be acquired): the generator ends with that
\* error before line 51; the with-body never runs
stdio_client_raises(c) ==
    /\ pc[c] = "L49"
    /\ how' = [how EXCEPT ![c] = "ConnectionError"]
    /\ pc' = [pc EXCEPT ![c] = "done"]
    /\ UNCHANGED <<session, sstate, acquired, released, again, overlapped, call, server_params>>

\* lines 51-55: ClientSession.__aenter__ returned; self.session = session; the
\* try block starts and awaits session.initialize()
session_assign(c) ==
    /\ pc[c] = "L51"
    /\ session' = Some(c)
    /\ pc' = [pc EXCEPT ![c] = "L55"]
    /\ UNCHANGED <<sstate, acquired, released, how, again, overlapped, call, server_params>>

\* the await of ClientSession.__aenter__ (line 51) is cancelled: line 52 is never
\* reached, the error unwinds through the two "async with" statements
session_enter_cancelled(c) ==
    /\ pc[c] = "L51"
    /\ how' = [how EXCEPT ![c] = "Cancelled"]
    /\ pc' = [pc EXCEPT ![c] = "exiting"]
    /\ UNCHANGED <<session, sstate, acquired, released, again, overlapped, call, server_params>>

\* lines 55-57: initialize() returned; the session is yielded and the with-body runs
initialize_ok(c) ==
    /\ pc[c] = "L55"
    /\ sstate' = [sstate EXCEPT ![c] = "READY"]
    /\ pc' = [pc EXCEPT ![c] = "L57"]
    /\ UNCHANGED <<session, acquired, released, how, again, overlapped, call, server_params>>

\* a slip: the finally block forgets to reset self.session
finally_block_keeps_slot(c, e) ==
    /\ how' = [how EXCEPT ![c] = e]
    /\ pc' = [pc EXCEPT ![c] = "exiting"]
    /\ UNCHANGED <<session, sstate, acquired, released, again, overlapped, call, server_params>>

\* line 59, the finally block: self.session = None; then the error (or the end of
\* the generator) leaves the two "async with" statements, awaiting their __aexit__
finally_block(c, e) ==
    /\ session' = None
    /\ how' = [how EXCEPT ![c] = e]
    /\ pc' = [pc EXCEPT ![c] = "exiting"]
    /\ UNCHANGED <<sstate, acquired, released, again, overlapped, call, server_params>>

\* line 55 raises (handshake rejected or malformed, or the await is cancelled):
\* line 57 is skipped and the finally block runs
initialize_raises(c) ==
    /\ pc[c] = "L55"
    /\ \E e \in {"ProtocolError", "Cancelled"} : finally_block(c, e)

\* a slip: cleanup written after the yield without try/finally and "async with",
\* so that cancellation of the with-body skips it
body_exit_cancel_skips_teardown(c) ==
    /\ pc[c] = "L57"
    /\ \/ \E e \in {"return", "exception"} : finally_block(c, e)
       \/ /\ how' = [how EXCEPT ![c] = "cancel"]
          /\ pc' = [pc EXCEPT ![c] = "done"]
          /\ UNCHANGED <<session, sstate, acquired, released, again, overlapped, call, server_params>>

\* the with-body ends, by normal return, by an exception or by cancellation:
\* __aexit__ resumes the generator at line 57 and the finally block runs
body_exit(c) ==
    /\ pc[c] = "L57"
    /\ \E e \in {"return", "exception", "cancel"} : finally_block(c, e)

\* end of "async with ClientSession" (line 51): the session is closed; then end of
\* "async with stdio_client" (line 49): the transport is released.  The generator
\* is finished and connect() returns or raises to its caller.  (No step of another
\* task reads what the two __aexit__ calls change, so they are one step here.)
connect_aexit(c) ==
    /\ pc[c] = "exiting"
    /\ sstate' = [sstate EXCEPT ![c] = "CLOSED"]
    /\ released' = [released EXCEPT ![c] = @ + 1]
    /\ pc' = [pc EXCEPT ![c] = "done"]
    /\ UNCHANGED <<session, acquired, how, again, overlapped, call, server_params>>

\* a slip: a disconnect that does not check whether it already ran
aexit_again_releases(c) ==
    /\ pc[c] = "done"
    /\ how[c] = "return"
    /\ again' = [again EXCEPT ![c] = "returned"]
    /\ released' = [released EXCEPT ![c] = @ + 1]
    /\ UNCHANGED <<session, pc, sstate, acquired, how, overlapped, call, server_params>>

\* __aexit__ of the context manager made by @asynccontextmanager (line 39) is
\* called again (with no exception) after the with-body returned and the generator
\* has finished: no line of connect() runs, nothing is raised
aexit_again(c) ==
    /\ pc[c] = "done"
    /\ how[c] = "return"
    /\ again' = [again EXCEPT ![c] = "returned"]
    /\ UNCHANGED <<session, pc, sstate, acquired, released, how, overlapped, call, server_params>>

\* ------------------------------------------------------ facade operations
\* One caller task at a time is inside a facade method; it runs concurrently with
\* the tasks that are inside connect().  Each method is two steps: from the call to
\* its await (the guard, then the request), and from the await to its end.

\* a slip: the guard is missing
not_connected_never(s) == FALSE

\* "if not self.session" (lines 68, 91, 115, 137, 158, 181)
not_connected(s) == s = None

\* some ClientSession made by this client is open (created and not yet closed)
has_open_session == \E c \in Scopes : sstate[c] \in {"INIT", "READY"}

\* "raise RuntimeError("Not connected to server")": no request is made
raise_not_connected(op) ==
    [st |-> "rejected", op |-> op, err |-> "RuntimeError: Not connected to server",
     hadOpen |-> has_open_session]

\* "await self.session.<op>(...)": the request goes to the session in the slot
\* (nreq counts the requests this invocation has sent)
await_session(op, name, args, req) ==
    [st |-> "awaiting", op |-> op, name |-> name, args |-> args, req |-> req,
     nreq |-> 1, hadOpen |-> has_open_session]

\* "return ..." and "except Exception as e: ...; raise"
\* a slip: the except branch sends the request once more before it gives up
reraise_after_retry(op, resp) ==
    [st |-> "raised", op |-> op, resp |-> resp, err |-> resp.err, nreq |-> call.nreq + 1]

\* "return ..." and "except Exception as e: ...; raise"
return_value(op, resp, out) ==
    [st |-> "returned", op |-> op, resp |-> resp, out |-> out, nreq |-> call.nreq]
reraise(op, resp) ==
    [st |-> "raised", op |-> op, resp |-> resp, err |-> resp.err, nreq |-> call.nreq]

\* a slip: the list is built back to front
dump_each_reversed(xs) == [i \in 1..Len(xs) |-> xs[Len(xs) + 1 - i].fields]

\* obj.model_dump(): the mapping of the object's field names to their values
model_dump(o) == o.fields
\* "[x.model_dump() for x in xs]"
dump_each(xs) == [i \in 1..Len(xs) |-> model_dump(xs[i])]

\* a slip: entries the client does not know ("path") are filtered out
arguments_or_empty_filtered(a) ==
    IF a = None THEN EmptyMap ELSE [k \in DOMAIN a.val \ {"path"} |-> a.val[k]]

\* "arguments = arguments or {}" (lines 94, 184)
arguments_or_empty(a) == IF a = None \/ a.val = EmptyMap THEN EmptyMap ELSE a.val

Request(method, name, arguments) == [method |-> method, name |-> name, arguments |-> arguments]

\* the caller task is between two facade calls
entering(op) == call.st = "idle"
resuming(op) == call.st = "awaiting" /\ call.op = op

\* list_tools, lines 68-72
list_tools_enter ==
    IF not_connected(session) THEN raise_not_connected("list_tools")
    ELSE await_session("list_tools", None, None, Request("list_tools", None, None))
list_tools_call ==
    /\ entering("list_tools")
    /\ call' = list_tools_enter
    /\ UNCHANGED <<session, server_params, scopeVars>>

\* list_tools, lines 72-78
list_tools_outcome(r) ==
    IF r.kind = "fault" THEN reraise("list_tools", r)
    ELSE return_value("list_tools", r, dump_each(r.val.fields.tools))
list_tools_resume ==
    /\ resuming("list_tools")
    /\ \E r \in ListToolsResponses : call' = list_tools_outcome(r)
    /\ UNCHANGED <<session, server_params, scopeVars>>

\* call_tool, lines 91-98
call_tool_enter(tool_name, arguments) ==
    IF not_connected(session) THEN raise_not_connected("call_tool")
    ELSE await_session("call_tool", tool_name, arguments,
            Request("call_tool", tool_name, arguments_or_empty(arguments)))
call_tool_call ==
    /\ entering("call_tool")
    /\ \E tool_name \in Names, arguments \in ArgInputs :
        call' = call_tool_enter(tool_name, arguments)
    /\ UNCHANGED <<session, server_params, scopeVars>>

\* a slip: a tool-level failure is turned into a raised error
call_tool_outcome_raises_on_isError(r) ==
    IF r.kind = "fault" THEN [st |-> "raised", op |-> "call_tool", resp |-> r, err |-> r.err]
    ELSE IF r.val.fields.isError
         THEN [st |-> "raised", op |-> "call_tool", resp |-> r, err |-> "ToolError"]
         ELSE [st |-> "returned", op |-> "call_tool", resp |-> r,
               out |-> [content |-> [i \in 1..Len(r.val.fields.content) |-> r.val.fields.content[i].fields],
                        isError |-> FALSE]]

\* call_tool, lines 98-106: what the method ends with when the await ends with r
call_tool_outcome(r) ==
    IF r.kind = "fault" THEN reraise("call_tool", r)
    ELSE return_value("call_tool", r,
            [content |-> dump_each(r.val.fields.content),
             isError |-> r.val.fields.isError])

\* call_tool, lines 98-106
call_tool_resume ==
    /\ resuming("call_tool")
    /\ \E r \in CallToolResponses : call' = call_tool_outcome(r)
    /\ UNCHANGED <<session, server_params, scopeVars>>

\* list_resources, lines 115-119
list_resources_enter ==
    IF not_connected(session) THEN raise_not_connected("list_resources")
    ELSE await_session("list_resources", None, None, Request("list_resources", None, None))
list_resources_call ==
    /\ entering("list_resources")
    /\ call' = list_resources_enter
    /\ UNCHANGED <<session, server_params, scopeVars>>

\* list_resources, lines 119-125
list_resources_outcome(r) ==
    IF r.kind = "fault" THEN reraise("list_resources", r)
    ELSE return_value("list_resources", r, dump_each(r.val.fields.resources))
list_resources_resume ==
    /\ resuming("list_resources")
    /\ \E r \in ListResourcesResponses : call' = list_resources_outcome(r)
    /\ UNCHANGED <<session, server_params, scopeVars>>

\* read_resource, lines 137-142
read_resource_enter(resource_uri) ==
    IF not_connected(session) THEN raise_not_connected("read_resource")
    ELSE await_session("read_resource", resource_uri, None,
            Request("read_resource", resource_uri, None))
read_resource_call ==
    /\ entering("read_resource")
    /\ \E resource_uri \in Names : call' = read_resource_enter(resource_uri)
    /\ UNCHANGED <<session, server_params, scopeVars>>

\* read_resource, lines 142-149: what the method ends with when the await ends with r
read_resource_outcome(r) ==
    IF r.kind = "fault" THEN reraise("read_resource", r)
    ELSE return_value("read_resource", r, [contents |-> dump_each(r.val.fields.contents)])

\* a slip: the except branch also forgets the session
read_resource_resume_drops_session ==
    /\ resuming("read_resource")
    /\ \E r \in ReadResourceResponses :
        /\ call' = read_resource_outcome(r)
        /\ session' = IF r.kind = "fault" THEN None ELSE session
    /\ UNCHANGED <<server_params, scopeVars>>

\* read_resource, lines 142-149
read_resource_resume ==
    /\ resuming("read_resource")
    /\ \E r \in ReadResourceResponses : call' = read_resource_outcome(r)
    /\ UNCHANGED <<session, server_params, scopeVars>>

\* list_prompts, lines 158-162
list_prompts_enter ==
    IF not_connected(session) THEN raise_not_connected("list_prompts")
    ELSE await_session("list_prompts", None, None, Request("list_prompts", None, None))
list_prompts_call ==
    /\ entering("list_prompts")
    /\ call' = list_prompts_enter
    /\ UNCHANGED <<session, server_params, scopeVars>>

\* list_prompts, lines 162-168
list_prompts_outcome(r) ==
    IF r.kind = "fault" THEN reraise("list_prompts", r)
    ELSE return_value("list_prompts", r, dump_each(r.val.fields.prompts))
list_prompts_resume ==
    /\ resuming("list_prompts")
    /\ \E r \in ListPromptsResponses : call' = list_prompts_outcome(r)
    /\ UNCHANGED <<session, server_params, scopeVars>>

\* get_prompt, lines 181-188
get_prompt_enter(prompt_name, arguments) ==
    IF not_connected(session) THEN raise_not_connected("get_prompt")
    ELSE await_session("get_prompt", prompt_name, arguments,
            Request("get_prompt", prompt_name, arguments_or_empty(arguments)))
get_prompt_call ==
    /\ entering("get_prompt")
    /\ \E prompt_name \in Names, arguments \in ArgInputs :
        call' = get_prompt_enter(prompt_name, arguments)
    /\ UNCHANGED <<session, server_params, scopeVars>>

\* get_prompt, lines 188-196
get_prompt_outcome(r) ==
    IF r.kind = "fault" THEN reraise("get_prompt", r)
    ELSE return_value("get_prompt", r,
            [description |-> r.val.fields.description,
             messages |-> dump_each(r.val.fields.messages)])
get_prompt_resume ==
    /\ resuming("get_prompt")
    /\ \E r \in GetPromptResponses : call' = get_prompt_outcome(r)
    /\ UNCHANGED <<session, server_params, scopeVars>>

\* the caller task has the value returned, or the error raised, by the facade
\* method it awaited (as in lines 209, 268, 340, 373, 416) and goes on
caller_continues ==
    /\ call.st \in {"rejected", "returned", "raised"}
    /\ call' = [st |-> "idle"]
    /\ UNCHANGED <<session, server_params, scopeVars>>

Facade ==
    \/ list_tools_call
    \/ list_tools_resume
    \/ call_tool_call
    \/ call_tool_resume
    \/ list_resources_call
    \/ list_resources_resume
    \/ read_resource_call
    \/ read_resource_resume
    \/ list_prompts_call
    \/ list_prompts_resume
    \/ get_prompt_call
    \/ get_prompt_resume
    \/ caller_continues

Connect(c) ==
    \/ connect_call(c)
    \/ stdio_client_ok(c)
    \/ stdio_client_raises(c)
    \/ session_assign(c)
    \/ session_enter_cancelled(c)
    \/ initialize_ok(c)
    \/ initialize_raises(c)
    \/ body_exit(c)
    \/ connect_aexit(c)
    \/ aexit_again(c)

Next ==
    /\ (\E c \in Scopes : Connect(c)) \/ Facade
    /\ UNCHANGED driverVars
    /\ UNCHANGED schemaVars

Spec == Init /\ [][Next]_vars

\* ------------------------------------------------------------ strings
\* A line typed by the user, and every str made from it, is the sequence of its
\* characters.

\* longest value of a key=value token among the input lines
MaxValueLen == 3

Whitespace == {" ", "\t"}
Quotes == {"\"", "'"}
Digits == {"0", "1", "2", "3", "4", "5", "6", "7", "8", "9"}
DigitValue == [d \in Digits |->
    CASE d = "0" -> 0 [] d = "1" -> 1 [] d = "2" -> 2 [] d = "3" -> 3 [] d = "4" -> 4
      [] d = "5" -> 5 [] d = "6" -> 6 [] d = "7" -> 7 [] d = "8" -> 8 [] d = "9" -> 9]
Uppers == <<"A", "B", "C", "D", "E", "F", "G", "H", "I", "J", "K", "L", "M",
            "N", "O", "P", "Q", "R", "S", "T", "U", "V", "W", "X", "Y", "Z">>
Lowers == <<"a", "b", "c", "d", "e", "f", "g", "h", "i", "j", "k", "l", "m",
            "n", "o", "p", "q", "r", "s", "t", "u", "v", "w", "x", "y", "z">>

\* str.lstrip(chars), str.rstrip(chars), str.strip(chars): every leading and
\* every trailing character that is one of chars is removed
RECURSIVE lstrip(_, _)
lstrip(s, chars) ==
    IF s # <<>> /\ Head(s) \in chars THEN lstrip(Tail(s), chars) ELSE s
RECURSIVE rstrip(_, _)
rstrip(s, chars) ==
    IF s # <<>> /\ s[Len(s)] \in chars THEN rstrip(SubSeq(s, 1, Len(s) - 1), chars) ELSE s
strip(s, chars) == rstrip(lstrip(s, chars), chars)

\* a slip: the case of the letters is kept
lower_keeps_case(s) == s

\* str.lower()
lower(s) ==
    [i \in 1..Len(s) |->
        IF \E j \in 1..Len(Uppers) : Uppers[j] = s[i]
        THEN Lowers[CHOOSE j \in 1..Len(Uppers) : Uppers[j] = s[i]]
        ELSE s[i]]

\* str.split(): the maximal runs of characters that are not whitespace
RECURSIVE split_from(_, _, _)
split_from(s, cur, acc) ==
    IF s = <<>> THEN (IF cur = <<>> THEN acc ELSE Append(acc, cur))
    ELSE IF Head(s) \in Whitespace
         THEN split_from(Tail(s), <<>>, IF cur = <<>> THEN acc ELSE Append(acc, cur))
         ELSE split_from(Tail(s), Append(cur, Head(s)), acc)
split(s) == split_from(s, <<>>, <<>>)

\* "'=' in part" and "part.split('=', 1)"
contains(s, ch) == \E i \in 1..Len(s) : s[i] = ch
find(s, ch) == CHOOSE i \in 1..Len(s) : s[i] = ch /\ \A j \in 1..(i - 1) : s[j] # ch
split_key(part) == SubSeq(part, 1, find(part, "=") - 1)
split_value(part) == SubSeq(part, find(part, "=") + 1, Len(part))

\* the digits of a numeric literal: decimal digits, with single underscores
\* allowed between two digits
digits_ok(b) ==
    \A i \in 1..Len(b) :
        \/ b[i] \in Digits
        \/ /\ b[i] = "_"
           /\ 1 < i /\ i < Len(b)
           /\ b[i - 1] \in Digits /\ b[i + 1] \in Digits
RECURSIVE digits_value(_, _)
digits_value(b, acc) ==
    IF b = <<>> THEN acc
    ELSE digits_value(Tail(b), IF Head(b) = "_" THEN acc ELSE 10 * acc + DigitValue[Head(b)])
count_digits(b) == Cardinality({i \in 1..Len(b) : b[i] \in Digits})
signed(v) == v # <<>> /\ v[1] \in {"+", "-"}
unsigned(v) == IF signed(v) THEN Tail(v) ELSE v
sign_of(v) == IF v # <<>> /\ v[1] = "-" THEN -1 ELSE 1

\* int(value) of a str that has no whitespace: an optional sign and decimal digits
int_ok(v) == unsigned(v) # <<>> /\ digits_ok(unsigned(v)) /\ unsigned(v)[1] # "_"
int_value(v) == sign_of(v) * digits_value(unsigned(v), 0)

\* float(value) of a str that has no whitespace and none of the letters of an
\* exponent, "inf" or "nan": an optional sign, decimal digits, at most one point,
\* a digit on at least one side of it
int_part(b) == IF contains(b, ".") THEN SubSeq(b, 1, find(b, ".") - 1) ELSE b
frac_part(b) == IF contains(b, ".") THEN SubSeq(b, find(b, ".") + 1, Len(b)) ELSE <<>>
float_ok(v) ==
    LET b == unsigned(v) IN
    /\ digits_ok(int_part(b))
    /\ digits_ok(frac_part(b))
    /\ int_part(b) \o frac_part(b) # <<>>
\* a float is kept as mantissa / 10^places with the mantissa not divisible by 10
\* unless places = 0, so that equal numbers are equal values
RECURSIVE normal(_, _)
normal(m, places) ==
    IF places > 0 /\ m % 10 = 0 THEN normal(m \div 10, places - 1)
    ELSE [mantissa |-> m, places |-> places]
float_value(v) ==
    LET b == unsigned(v) IN
    LET n == normal(digits_value(int_part(b) \o frac_part(b), 0), count_digits(frac_part(b))) IN
    [mantissa |-> sign_of(v) * n.mantissa, places |-> n.places]

\* the values an argument can have
IntArg(n) == [type |-> "int", mantissa |-> n, places |-> 0, str |-> <<>>]
FloatArg(f) == [type |-> "float", mantissa |-> f.mantissa, places |-> f.places, str |-> <<>>]
StrArg(s) == [type |-> "str", mantissa |-> 0, places |-> 0, str |-> s]

\* a variant: a sign other than "-" makes a float, and only one pair of equal
\* quote characters around the value is removed
coerce_one_matching_pair(value) ==
    IF int_ok(value) /\ value[1] # "+" THEN IntArg(int_value(value))
    ELSE IF float_ok(value) THEN FloatArg(float_value(value))
    ELSE IF Len(value) >= 2 /\ value[1] \in Quotes /\ value[Len(value)] = value[1]
         THEN StrArg(SubSeq(value, 2, Len(value) - 1))
         ELSE StrArg(value)

\* lines 359-369: int(value), else float(value), else value.strip('"\'')
coerce(value) ==
    IF int_ok(value) THEN IntArg(int_value(value))
    ELSE IF float_ok(value) THEN FloatArg(float_value(value))
    ELSE StrArg(strip(value, Quotes))

\* a slip: a key that is already there keeps its value
set_item_keeps_first(d, k, v) ==
    IF k \in DOMAIN d THEN d ELSE [x \in DOMAIN d \cup {k} |-> IF x = k THEN v ELSE d[x]]

\* "arguments[key] = value"
set_item(d, k, v) == [x \in DOMAIN d \cup {k} |-> IF x = k THEN v ELSE d[x]]

\* lines 355-370: "for part in parts[1:]"
RECURSIVE parse_arguments(_, _)
parse_arguments(parts, arguments) ==
    IF parts = <<>> THEN arguments
    ELSE parse_arguments(Tail(parts),
            IF contains(Head(parts), "=")
            THEN set_item(arguments, split_key(Head(parts)), coerce(split_value(Head(parts))))
            ELSE arguments)

\* ------------------------------------------------------------- main()
\* One task runs main(): it enters "async with client.connect()" (the first
\* connect() call of the client), lists the tools, runs the four demos and then
\* interactive_mode.  mpc is the line it is at; at an await it waits there.

\* the lines the user may type
quit_word == <<"q", "u", "i", "t">>
exit_word == <<"e", "x", "i", "t">>
list_word == <<"l", "i", "s", "t">>
echo_word == <<"e", "c", "h", "o">>
hello_world == <<"h", "e", "l", "l", "o", " ", "w", "o", "r", "l", "d">>
ValueChars == {"1", "+", "-", ".", "\"", "'", "a"}
Values == SeqsUpTo(ValueChars, MaxValueLen)
MetaLines ==
    {<<>>, <<" ", " ">>,
     quit_word, <<"Q", "U", "I", "T">>, <<" ">> \o exit_word \o <<" ">>, <<"E", "x", "i", "t">>,
     list_word, <<"L", "i", "s", "t">>,
     list_word \o <<" ", "a">>, quit_word \o <<" ", "a">>, exit_word \o <<" ", "k", "=", "1">>}
ValueLines == {echo_word \o <<" ", "k", "=">> \o v : v \in Values}
SampleLines ==
    {echo_word,
     echo_word \o <<" ", "m", "s", "g", "=", "\"">> \o hello_world \o <<"\"">>,
     echo_word \o <<" ", "k", "=", "1", " ", "k", "=", "a">>,
     echo_word \o <<" ", "k", "=", "a", "=", "1">>,
     echo_word \o <<" ", "a", " ", " ", "k", "=", "1", ".", "5", "0">>,
     echo_word \o <<" ", "=", "1">>}
InputLines == MetaLines \cup ValueLines \cup SampleLines

\* print(...): a printed line is its format and the values put into it
Line(fmt, args) == [fmt |-> fmt, args |-> args]
RECURSIVE flatten(_)
flatten(ss) == IF ss = <<>> THEN <<>> ELSE Head(ss) \o flatten(Tail(ss))
\* "for content in result["content"]: if content["type"] == "text": print(content["text"])"
text_lines(content) ==
    flatten([i \in 1..Len(content) |->
        IF content[i].type = "text" THEN <<Line("{}", <<content[i].text>>)>> ELSE <<>>])

\* main() calls a facade method: the method runs to its await (or raises at its guard)
Invoke(rec, at) ==
    /\ call' = rec
    /\ issued' = 1
    /\ outstanding' = IF rec.st = "awaiting" THEN outstanding + 1 ELSE outstanding
    /\ mpc' = at
    /\ UNCHANGED <<session, server_params, scopeVars, eof>>
\* the ways the facade method main() is in can end: S when it awaits
Ends(S) == IF call.st = "rejected" THEN {call} ELSE S
failed(o) == o.st \in {"rejected", "raised"}
\* the method ends with o
Resume(o) ==
    /\ call.st \in {"awaiting", "rejected"}
    /\ call' = o
    /\ outstanding' = IF call.st = "awaiting" THEN outstanding - 1 ELSE outstanding
    /\ UNCHANGED <<session, server_params, scopeVars, issued, eof>>

\* main() starts; nothing else uses the client
MainInit ==
    /\ ClientInit
    /\ mpc = "start"
    /\ line = None
    /\ issued = 0
    /\ printed = <<>>
    /\ outstanding = 0
    /\ eof = FALSE
    /\ SchemaOff

\* line 411: "async with client.connect() as session"
main_enter ==
    /\ mpc = "start"
    /\ connect_call(1)
    /\ mpc' = "L411"
    /\ UNCHANGED <<line, issued, printed, outstanding, eof>>

\* lines 49-55 run for main()
main_connecting ==
    /\ mpc = "L411"
    /\ \/ stdio_client_ok(1)
       \/ stdio_client_raises(1)
       \/ session_assign(1)
       \/ session_enter_cancelled(1)
       \/ initialize_ok(1)
       \/ initialize_raises(1)
    /\ UNCHANGED driverVars

\* the two __aexit__ of connect() run, after a failed entry or after the body
main_scope_closing ==
    /\ mpc \in {"L411", "unwinding"}
    /\ connect_aexit(1)
    /\ UNCHANGED driverVars

\* lines 434-436 and the end of main(): how main() ends once the connect scope is left
main_end(h) ==
    IF h = "return" THEN "returned"
    ELSE IF h \in {"cancel", "Cancelled"} THEN "cancelled"
    ELSE "exit1"
main_leaves ==
    /\ mpc \in {"L411", "unwinding"}
    /\ pc[1] = "done"
    /\ mpc' = main_end(how[1])
    /\ UNCHANGED <<session, server_params, scopeVars, call, line, issued, printed, outstanding, eof>>

\* an exception raised in the body of the "async with" leaves the body
main_raises ==
    /\ mpc = "raising"
    /\ pc[1] = "L57"
    /\ finally_block(1, "exception")
    /\ mpc' = "unwinding"
    /\ UNCHANGED <<line, issued, printed, outstanding, eof>>

AwaitLines == {"L416", "L268", "L279", "L299", "L311", "L209", "L216", "L226", "L247", "L340", "L373"}

\* the task is cancelled while it awaits a response: CancelledError is no
\* Exception, no handler of the demos or of interactive_mode catches it
main_cancelled ==
    /\ mpc \in AwaitLines
    /\ call.st = "awaiting"
    /\ pc[1] = "L57"
    /\ finally_block(1, "cancel")
    /\ mpc' = "unwinding"
    /\ UNCHANGED <<line, issued, printed, outstanding, eof>>

\* "tool.get('description')" is there and not None
has_description(d) == "description" \in DOMAIN d /\ d.description # None
\* lines 417-423
tool_lines(tools) ==
    flatten([i \in 1..Len(tools) |->
        <<Line("Tool: {}", <<tools[i].name>>)>>
        \o (IF has_description(tools[i])
            THEN <<Line("  Description: {}", <<tools[i].description.val>>)>> ELSE <<>>)
        \o <<Line("", <<>>)>>])

\* lines 412-416
main_list_tools ==
    /\ mpc = "L411"
    /\ pc[1] = "L57"
    /\ printed' = <<Line("Connected to MCP server successfully!", <<>>),
                   Line("\n=== Available Tools ===", <<>>)>>
    /\ Invoke(list_tools_enter, "L416")
    /\ UNCHANGED line

\* lines 416-423: a failure of the listing leaves the body
main_list_tools_resume ==
    /\ mpc = "L416"
    /\ \E o \in Ends({list_tools_outcome(r) : r \in ListToolsResponses}) :
        /\ Resume(o)
        /\ printed' = IF failed(o) THEN <<>> ELSE tool_lines(o.out)
        /\ mpc' = IF failed(o) THEN "raising" ELSE "L426"
    /\ UNCHANGED line

\* dict.get(key, default)
get(d, key, default) == IF key \in DOMAIN d THEN d[key] ELSE default

\* lines 270-273
resource_lines(resources) ==
    flatten([i \in 1..Len(resources) |->
        <<Line("  - {}: {}", <<get(resources[i], "name", "Unknown"), get(resources[i], "uri", "No URI")>>)>>
        \o (IF has_description(resources[i])
            THEN <<Line("    Description: {}", <<resources[i].description.val>>)>> ELSE <<>>)])
\* lines 281-284: "item["type"]" raises KeyError when the item has no such key
items_have_type(contents) == \A i \in 1..Len(contents) : "type" \in DOMAIN contents[i]

\* demonstrate_resources, lines 260-287
demonstrate_resources ==
    \/ /\ mpc = "L426"
       /\ printed' = <<Line("\n=== Resources Demo ===", <<>>)>>
       /\ Invoke(list_resources_enter, "L268")
       /\ UNCHANGED line
    \/ /\ mpc = "L268"
       /\ \E o \in Ends({list_resources_outcome(r) : r \in ListResourcesResponses}) :
            /\ Resume(o)
            /\ printed' = IF failed(o) THEN <<Line("Resources demo failed: {}", <<o.err>>)>>
                          ELSE <<Line("Available resources:", <<>>)>> \o resource_lines(o.out)
            /\ mpc' = IF ~failed(o) /\ o.out # <<>> /\ "uri" \in DOMAIN o.out[1]
                      THEN "L278" ELSE "L427"
       /\ UNCHANGED line
    \/ /\ mpc = "L278"
       /\ printed' = <<>>
       /\ Invoke(read_resource_enter(call.out[1].uri), "L279")
       /\ UNCHANGED line
    \/ /\ mpc = "L279"
       /\ \E o \in Ends({read_resource_outcome(r) : r \in ReadResourceResponses}) :
            /\ Resume(o)
            /\ printed' =
                IF failed(o) THEN <<Line("Resources demo failed: {}", <<o.err>>)>>
                ELSE <<Line("\nContent of resource '{}':", <<call.name>>)>>
                     \o (IF items_have_type(o.out.contents) THEN text_lines(o.out.contents)
                         ELSE <<Line("Resources demo failed: {}", <<"'type'">>)>>)
            /\ mpc' = "L427"
       /\ UNCHANGED line

\* lines 301-304
prompt_lines(prompts) ==
    flatten([i \in 1..Len(prompts) |->
        <<Line("  - {}", <<get(prompts[i], "name", "Unknown")>>)>>
        \o (IF has_description(prompts[i])
            THEN <<Line("    Description: {}", <<prompts[i].description.val>>)>> ELSE <<>>)])
\* lines 315-318
message_lines(messages) ==
    [i \in 1..Len(messages) |->
        Line("  {}: {}", <<get(messages[i], "role", "unknown"), get(messages[i], "content", <<>>)>>)]

\* demonstrate_prompts, lines 290-320
demonstrate_prompts ==
    \/ /\ mpc = "L427"
       /\ printed' = <<Line("\n=== Prompts Demo ===", <<>>)>>
       /\ Invoke(list_prompts_enter, "L299")
       /\ UNCHANGED line
    \/ /\ mpc = "L299"
       /\ \E o \in Ends({list_prompts_outcome(r) : r \in ListPromptsResponses}) :
            /\ Resume(o)
            /\ printed' = IF failed(o) THEN <<Line("Prompts demo failed: {}", <<o.err>>)>>
                          ELSE <<Line("Available prompts:", <<>>)>> \o prompt_lines(o.out)
            /\ mpc' = IF ~failed(o) /\ o.out # <<>> /\ "name" \in DOMAIN o.out[1]
                      THEN "L310" ELSE "L428"
       /\ UNCHANGED line
    \/ /\ mpc = "L310"
       /\ printed' = <<>>
       /\ Invoke(get_prompt_enter(call.out[1].name, None), "L311")
       /\ UNCHANGED line
    \/ /\ mpc = "L311"
       /\ \E o \in Ends({get_prompt_outcome(r) : r \in GetPromptResponses}) :
            /\ Resume(o)
            /\ printed' =
                IF failed(o) THEN <<Line("Prompts demo failed: {}", <<o.err>>)>>
                ELSE <<Line("\nPrompt '{}':", <<call.name>>),
                       Line("Description: {}", <<o.out.description>>),
                       Line("Messages:", <<>>)>> \o message_lines(o.out.messages)
            /\ mpc' = "L428"
       /\ UNCHANGED line

\* the arguments of the tool calls of the demos
list_files_arguments == [path |-> StrArg(".")]
write_file_arguments ==
    [path |-> StrArg("mcp_test.txt"), content |-> StrArg("Hello from MCP client!\nThis is a test file.")]
read_file_arguments == [path |-> StrArg("mcp_test.txt")]
web_search_arguments ==
    [query |-> StrArg("MCP Model Context Protocol"),
     max_results |-> IntArg(3)]

\* a slip: the demo has no except clause, a failed call leaves the body of main()
demo_call_tool_resume_uncaught(at, heading, failure, then, out) ==
    /\ mpc = at
    /\ \E o \in Ends({call_tool_outcome(r) : r \in CallToolResponses}) :
        /\ Resume(o)
        /\ printed' = IF failed(o) THEN <<>> ELSE <<Line(heading, <<>>)>> \o text_lines(o.out.content)
        /\ mpc' = IF failed(o) THEN "raising" ELSE then
    /\ UNCHANGED line

\* one "result = await client.call_tool(...)" of a demo with the printing after it:
\* a failure goes to the except clause, which ends the demo at line out
demo_call_tool_resume(at, heading, failure, then, out) ==
    /\ mpc = at
    /\ \E o \in Ends({call_tool_outcome(r) : r \in CallToolResponses}) :
        /\ Resume(o)
        /\ printed' = IF failed(o) THEN <<Line(failure, <<o.err>>)>>
                      ELSE <<Line(heading, <<>>)>> \o text_lines(o.out.content)
        /\ mpc' = IF failed(o) THEN out ELSE then
    /\ UNCHANGED line

\* demonstrate_file_operations, lines 199-234
demonstrate_file_operations ==
    \/ /\ mpc = "L428"
       /\ printed' = <<Line("\n=== File Operations Demo ===", <<>>)>>
       /\ Invoke(call_tool_enter("list_files", Some(list_files_arguments)), "L209")
       /\ UNCHANGED line
    \/ demo_call_tool_resume("L209", "Files in current directory:", "File operations demo failed: {}", "L215", "L429")
    \/ /\ mpc = "L215"
       /\ printed' = <<>>
       /\ Invoke(call_tool_enter("write_file", Some(write_file_arguments)), "L216")
       /\ UNCHANGED line
    \/ demo_call_tool_resume("L216", "\nCreated test file:", "File operations demo failed: {}", "L225", "L429")
    \/ /\ mpc = "L225"
       /\ printed' = <<>>
       /\ Invoke(call_tool_enter("read_file", Some(read_file_arguments)), "L226")
       /\ UNCHANGED line
    \/ demo_call_tool_resume("L226", "\nRead test file content:", "File operations demo failed: {}", "L429", "L429")

\* a slip: the call is started as a task of its own and not awaited
demonstrate_web_search_unawaited ==
    \/ /\ mpc = "L429"
       /\ printed' = <<Line("\n=== Web Search Demo ===", <<>>)>>
       /\ Invoke(call_tool_enter("web_search", Some(web_search_arguments)), "L247")
       /\ UNCHANGED line
    \/ /\ mpc = "L247"
       /\ mpc' = "L432"
       /\ UNCHANGED <<session, server_params, scopeVars, call, line, issued, printed, outstanding, eof>>

\* demonstrate_web_search, lines 237-257
demonstrate_web_search ==
    \/ /\ mpc = "L429"
       /\ printed' = <<Line("\n=== Web Search Demo ===", <<>>)>>
       /\ Invoke(call_tool_enter("web_search", Some(web_search_arguments)), "L247")
       /\ UNCHANGED line
    \/ demo_call_tool_resume("L247", "Web search results:", "Web search demo failed: {}", "L432", "L432")

\* ------------------------------------------------------ interactive_mode
\* line 334: "user_input = input("\n> ").strip()"
user_input(l) == strip(l, Whitespace)
\* line 336
is_quit(u) == lower(u) \in {quit_word, exit_word}

\* a slip: the meta-command is recognised by the first token of the line
is_list_by_first_token(u) == u # <<>> /\ lower(split(u)[1]) = list_word

\* line 339
is_list(u) == lower(u) = list_word

\* lines 327-330: interactive_mode begins
interactive_mode ==
    /\ mpc = "L432"
    /\ printed' = <<Line("\n=== Interactive Mode ===", <<>>),
                   Line("Enter tool calls in the format: tool_name arg1=value1 arg2=value2", <<>>),
                   Line("Type 'list' to see available tools", <<>>),
                   Line("Type 'quit' to exit", <<>>)>>
    /\ mpc' = "L332"
    /\ UNCHANGED <<session, server_params, scopeVars, call, line, issued, outstanding, eof>>

\* lines 332-334: "while True", at first and after each command: input() is
\* called, what the last command left is gone
interactive_loop ==
    /\ mpc \in {"L332", "L346", "L349", "L379", "L384"}
    /\ mpc' = "L334"
    /\ call' = [st |-> "idle"]
    /\ line' = None
    /\ issued' = 0
    /\ printed' = <<>>
    /\ UNCHANGED <<session, server_params, scopeVars, outstanding, eof>>

\* lines 334-337: the line is quit or exit: break, and interactive_mode returns
interactive_quit ==
    /\ mpc = "L334"
    /\ ~eof
    /\ \E l \in InputLines :
        /\ is_quit(user_input(l))
        /\ line' = Some(l)
    /\ mpc' = "L337"
    /\ UNCHANGED <<session, server_params, scopeVars, call, issued, printed, outstanding, eof>>

\* lines 334-340: the line is list
interactive_list ==
    /\ mpc = "L334"
    /\ ~eof
    /\ \E l \in InputLines :
        /\ ~is_quit(user_input(l))
        /\ is_list(user_input(l))
        /\ line' = Some(l)
    /\ Invoke(list_tools_enter, "L340")
    /\ UNCHANGED printed

\* a slip: the test for an empty line is missing, "parts[0]" raises IndexError
interactive_blank_unchecked ==
    /\ mpc = "L334"
    /\ ~eof
    /\ \E l \in InputLines :
        /\ ~is_quit(user_input(l))
        /\ ~is_list(user_input(l))
        /\ user_input(l) = <<>>
        /\ line' = Some(l)
    /\ printed' = <<Line("Error: {}", <<"list index out of range">>)>>
    /\ mpc' = "L384"
    /\ UNCHANGED <<session, server_params, scopeVars, call, issued, outstanding, eof>>

\* lines 334-349: the line is empty: continue
interactive_blank ==
    /\ mpc = "L334"
    /\ ~eof
    /\ \E l \in InputLines :
        /\ ~is_quit(user_input(l))
        /\ ~is_list(user_input(l))
        /\ user_input(l) = <<>>
        /\ line' = Some(l)
    /\ mpc' = "L349"
    /\ UNCHANGED <<session, server_params, scopeVars, call, issued, printed, outstanding, eof>>

\* lines 334-373: any other line: the first token is the tool name, the tokens
\* after it make the arguments, and call_tool is called
interactive_tool ==
    /\ mpc = "L334"
    /\ ~eof
    /\ \E l \in InputLines :
        /\ ~is_quit(user_input(l))
        /\ ~is_list(user_input(l))
        /\ user_input(l) # <<>>
        /\ line' = Some(l)
        /\ LET parts == split(user_input(l)) IN
           Invoke(call_tool_enter(parts[1], Some(parse_arguments(Tail(parts), EmptyMap))), "L373")
    /\ UNCHANGED printed

\* a slip: the end of the input ends the loop
input_raises_eof_breaks ==
    /\ mpc = "L334"
    /\ \E e \in {"KeyboardInterrupt", "EOFError"} :
        /\ mpc' = "L382"
        /\ eof' = (eof \/ e = "EOFError")
    /\ UNCHANGED <<session, server_params, scopeVars, call, line, issued, printed, outstanding>>

\* line 334: input() raises: KeyboardInterrupt ends the loop (lines 381-382),
\* EOFError is an Exception (lines 383-384).  Once the input is exhausted every
\* later input() raises EOFError, unless the user interrupts.
input_raises ==
    /\ mpc = "L334"
    /\ \E e \in {"KeyboardInterrupt", "EOFError"} :
        /\ mpc' = IF e = "KeyboardInterrupt" THEN "L382" ELSE "L384"
        /\ printed' = IF e = "KeyboardInterrupt" THEN printed
                      ELSE <<Line("Error: {}", <<"EOF when reading a line">>)>>
        /\ eof' = (eof \/ e = "EOFError")
    /\ UNCHANGED <<session, server_params, scopeVars, call, line, issued, outstanding>>

\* lines 342-345
listing_lines(tools) ==
    flatten([i \in 1..Len(tools) |->
        <<Line("  - {}", <<get(tools[i], "name", "Unknown")>>)>>
        \o (IF has_description(tools[i])
            THEN <<Line("    Description: {}", <<tools[i].description.val>>)>> ELSE <<>>)])

\* lines 340-346, and lines 383-384 when list_tools raised
interactive_list_resume ==
    /\ mpc = "L340"
    /\ \E o \in Ends({list_tools_outcome(r) : r \in ListToolsResponses}) :
        /\ Resume(o)
        /\ printed' = IF failed(o) THEN <<Line("Error: {}", <<o.err>>)>>
                      ELSE <<Line("Available tools:", <<>>)>> \o listing_lines(o.out)
        /\ mpc' = IF failed(o) THEN "L384" ELSE "L346"
    /\ UNCHANGED line

\* a slip: the items are printed last to first
render_items_reversed(content) ==
    [i \in 1..Len(content) |->
        LET c == content[Len(content) + 1 - i] IN
        IF c.type = "text" THEN Line("{}", <<c.text>>) ELSE Line("[{}]: {}", <<c.type, c>>)]

\* lines 375-379
render_items(content) ==
    [i \in 1..Len(content) |->
        IF content[i].type = "text" THEN Line("{}", <<content[i].text>>)
        ELSE Line("[{}]: {}", <<content[i].type, content[i]>>)]
\* lines 374-379
render(result) == <<Line("Result:", <<>>)>> \o render_items(result.content)

\* a slip: a result with the error flag is reported as an error
interactive_tool_resume_checks_isError ==
    /\ mpc = "L373"
    /\ \E o \in Ends({call_tool_outcome(r) : r \in CallToolResponses}) :
        /\ Resume(o)
        /\ printed' = IF failed(o) THEN <<Line("Error: {}", <<o.err>>)>>
                      ELSE IF o.out.isError THEN <<Line("Error: {}", <<"tool failed">>)>>
                      ELSE render(o.out)
        /\ mpc' = IF failed(o) THEN "L384" ELSE IF o.out.isError THEN "L384" ELSE "L379"
    /\ UNCHANGED line

\* a slip: the handler of a failed command leaves the loop
interactive_tool_resume_breaks ==
    /\ mpc = "L373"
    /\ \E o \in Ends({call_tool_outcome(r) : r \in CallToolResponses}) :
        /\ Resume(o)
        /\ printed' = IF failed(o) THEN <<Line("Error: {}", <<o.err>>)>> ELSE render(o.out)
        /\ mpc' = IF failed(o) THEN "L382" ELSE "L379"
    /\ UNCHANGED line

\* lines 373-379, and lines 383-384 when call_tool raised
interactive_tool_resume ==
    /\ mpc = "L373"
    /\ \E o \in Ends({call_tool_outcome(r) : r \in CallToolResponses}) :
        /\ Resume(o)
        /\ printed' = IF failed(o) THEN <<Line("Error: {}", <<o.err>>)>> ELSE render(o.out)
        /\ mpc' = IF failed(o) THEN "L384" ELSE "L379"
    /\ UNCHANGED line

\* the loop was left by break: interactive_mode returns and the body of the
\* "async with" of main() ends
main_returns ==
    /\ mpc \in {"L337", "L382"}
    /\ pc[1] = "L57"
    /\ finally_block(1, "return")
    /\ mpc' = "unwinding"
    /\ UNCHANGED <<line, issued, printed, outstanding, eof>>

MainNext ==
    /\ \/ main_enter
       \/ main_connecting
       \/ main_scope_closing
       \/ main_leaves
       \/ main_raises
       \/ main_cancelled
       \/ main_list_tools
       \/ main_list_tools_resume
       \/ demonstrate_resources
       \/ demonstrate_prompts
       \/ demonstrate_file_operations
       \/ demonstrate_web_search
       \/ interactive_mode
       \/ interactive_loop
       \/ interactive_quit
       \/ interactive_list
       \/ interactive_blank
       \/ interactive_tool
       \/ input_raises
       \/ interactive_list_resume
       \/ interactive_tool_resume
       \/ main_returns
    /\ UNCHANGED schemaVars

Main == MainInit /\ [][MainNext]_vars

\* ------------------------------------------------------------ properties
ListField == [list_tools |-> "tools", list_resources |-> "resources", list_prompts |-> "prompts"]
ListOps == DOMAIN ListField
BodyExits == {"return", "exception", "cancel"}
ConnectFailures == {"ConnectionError", "ProtocolError"}
Open(c) == sstate[c] \in {"INIT", "READY"}

\* C1: a facade operation invoked while no session of the client is open (before
\* any connect(), or after the connect scope has exited) fails with the
\* not-connected error, and no request is issued.
C1_NotConnected ==
    (call.st \in {"rejected", "awaiting"} /\ ~call.hadOpen) =>
        /\ call.st = "rejected"
        /\ call.err = "RuntimeError: Not connected to server"
        /\ "req" \notin DOMAIN call

\* an operation was rejected after a connect scope was entered and left
C1_Witness ==
    /\ call.st = "rejected"
    /\ ~call.hadOpen
    /\ \E c \in Scopes : pc[c] = "done" /\ how[c] = "return"

\* C2 as stated: once a session of the client has been closed, the client never
\* again is in a state in which facade operations are accepted, that is, with a
\* READY session in its slot (stated here for the runs in which connect scopes
\* never overlap).
C2_ClosedClientStaysClosed ==
    (~overlapped /\ \E c \in Scopes : sstate[c] = "CLOSED" /\ how[c] = "return") =>
        ~\E d \in Scopes : session = Some(d) /\ sstate[d] = "READY"

\* C2 as amended: every session object follows only INIT -> READY, READY -> CLOSED
\* and INIT -> CLOSED; it never leaves CLOSED, and a closed session is never the
\* client's current session.
C2_SessionTransitions ==
    [][\A c \in Scopes :
        /\ sstate'[c] # sstate[c] =>
              <<sstate[c], sstate'[c]>> \in
                 {<<"NONE", "INIT">>, <<"INIT", "READY">>, <<"READY", "CLOSED">>, <<"INIT", "CLOSED">>}
        /\ sstate[c] = "CLOSED" => sstate'[c] = "CLOSED" /\ session' # Some(c)]_vars

\* a session is closed and a later connect() on the same client is READY
C2_Witness ==
    \E c, d \in Scopes : sstate[c] = "CLOSED" /\ session = Some(d) /\ sstate[d] = "READY"

\* C3: at no time are two sessions created by the client open together.
C3_AtMostOneOpenSession ==
    Cardinality({c \in Scopes : Open(c)}) <= 1

\* C4: on every way out of the connect scope (return, exception, cancellation)
\* the session is closed, the slot no longer holds it, and the transport is
\* released exactly once; it is never released twice or without being acquired.
C4_Teardown ==
    \A c \in Scopes :
        /\ released[c] <= acquired[c]
        /\ acquired[c] <= 1
        /\ pc[c] \in {"exiting", "done"} => session # Some(c)
        /\ (pc[c] = "done" /\ acquired[c] = 1) => (sstate[c] = "CLOSED" /\ released[c] = 1)
        /\ (pc[c] = "done" /\ how[c] \in BodyExits) => acquired[c] = 1

\* a connect scope left by cancellation is torn down
C4_Witness ==
    \E c \in Scopes :
        pc[c] = "done" /\ how[c] = "cancel" /\ released[c] = 1 /\ sstate[c] = "CLOSED"

C6_FailedConnectLeavesSlotEmpty ==
    [][\A c \in Scopes :
        (pc[c] # "done" /\ pc'[c] = "done" /\ how'[c] \in ConnectFailures) =>
            /\ sstate[c] # "READY"
            /\ not_connected(session')]_vars

\* C6, supporting: in the runs in which connect scopes never overlap, the slot is
\* empty whenever connect() raises.
C6_HoldsWithoutOverlap ==
    [][\A c \in Scopes :
        (~overlapped' /\ pc[c] # "done" /\ pc'[c] = "done" /\ how'[c] \in ConnectFailures) =>
            /\ sstate[c] # "READY"
            /\ not_connected(session')]_vars

\* C7: a request is issued by a facade operation only to a session that is READY.
C7_NoRequestBeforeReady ==
    [][(call.st = "idle" /\ call'.st = "awaiting") =>
         \E c \in Scopes : session = Some(c) /\ sstate[c] = "READY"]_vars

\* C8: call_tool and get_prompt send exactly the given name and the given
\* arguments mapping, key for key; the empty mapping when arguments is omitted.
C8_RequestAsGiven ==
    (call.st = "awaiting" /\ call.op \in {"call_tool", "get_prompt"}) =>
        /\ call.req.method = call.op
        /\ call.req.name = call.name
        /\ call.args = None => call.req.arguments = EmptyMap
        /\ call.args # None =>
              /\ DOMAIN call.req.arguments = DOMAIN call.args.val
              /\ \A k \in DOMAIN call.args.val : call.req.arguments[k] = call.args.val[k]

\* call_tool has sent a request carrying both given entries
C8_Witness ==
    /\ call.st = "awaiting"
    /\ call.op = "call_tool"
    /\ call.args # None
    /\ DOMAIN call.req.arguments = Keys

\* C9: a tool result with the error flag set is returned, with is_error true and
\* the peer's content items; a failed remote call is raised and returns nothing.
C9_TwoFailureChannels ==
    (call.st \in {"returned", "raised"} /\ call.op = "call_tool") =>
        /\ call.resp.kind = "result" =>
              /\ call.st = "returned"
              /\ call.out.isError = call.resp.val.fields.isError
              /\ Len(call.out.content) = Len(call.resp.val.fields.content)
              /\ \A i \in 1..Len(call.out.content) :
                    call.out.content[i] = call.resp.val.fields.content[i].fields
        /\ call.resp.kind = "fault" =>
              /\ call.st = "raised"
              /\ call.err = call.resp.err
              /\ "out" \notin DOMAIN call

\* call_tool returned a result whose error flag is set, with its content
C9_Witness ==
    /\ call.st = "returned"
    /\ call.op = "call_tool"
    /\ call.out.isError
    /\ Len(call.out.content) = MaxItems

\* C10: list_tools, list_resources and list_prompts return as many elements as
\* the peer's list has, in the peer's order, the i-th with the i-th's field values.
C10_ListsPreserved ==
    (call.st = "returned" /\ call.op \in ListOps) =>
        LET peer == call.resp.val.fields[ListField[call.op]] IN
        /\ Len(call.out) = Len(peer)
        /\ \A i \in 1..Len(peer) :
              /\ DOMAIN call.out[i] = DOMAIN peer[i].fields
              /\ \A f \in DOMAIN peer[i].fields : call.out[i][f] = peer[i].fields[f]

\* list_tools returned two different descriptors
C10_Witness ==
    /\ call.st = "returned"
    /\ call.op = "list_tools"
    /\ Len(call.out) = 2
    /\ call.out[1] # call.out[2]

\* C11: an invocation that reached its await has sent exactly one request; when the
\* request failed the invocation raised that same failure, after no second request.
C11_OneRequestNoRetry ==
    (call.st \in {"awaiting", "returned", "raised"}) =>
        /\ call.nreq = 1
        /\ call.st = "raised" => (call.resp.kind = "fault" /\ call.err = call.resp.err)

\* the request of read_resource failed with NotFoundError and that was raised
C11_Witness ==
    /\ call.st = "raised"
    /\ call.op = "read_resource"
    /\ call.resp = Fault("NotFoundError")
    /\ call.err = "NotFoundError"

\* C12: no step of a facade operation (its call, its return, its raise) changes
\* the session slot or the server parameters.
C12_FacadeFrame ==
    [][call' # call => (session' = session /\ server_params' = server_params)]_vars

\* a facade operation has failed and the slot still holds the READY session
C12_Witness ==
    /\ call.st = "raised"
    /\ session # None
    /\ sstate[session.val] = "READY"
    /\ server_params = StdioServerParameters

\* the tokens after the tool name of the line typed last
typed_parts == Tail(split(user_input(line.val)))
\* token i is a key=value token and no later token has its key
sets_argument(parts, i) ==
    /\ contains(parts[i], "=")
    /\ \A j \in (i + 1)..Len(parts) :
          ~(contains(parts[j], "=") /\ split_key(parts[j]) = split_key(parts[i]))
\* main() is at line 373 and call_tool has sent its request
tool_requested == mpc = "L373" /\ call.st = "awaiting"

\* C13 (as claimed): the argument of a key=value token is the integer when the value
\* is decimal digits after an optional "-", else the float when the value parses as
\* one, else the string with one pair of equal surrounding quote characters
\* removed if there is one and unchanged otherwise.
C13_CoercionAsClaimed ==
    tool_requested =>
        \A i \in 1..Len(typed_parts) : sets_argument(typed_parts, i) =>
            LET v == split_value(typed_parts[i])
                a == call.req.arguments[split_key(typed_parts[i])]
                digits == IF v # <<>> /\ v[1] = "-" THEN Tail(v) ELSE v
                claimed_int == digits # <<>> /\ \A k \in 1..Len(digits) : digits[k] \in Digits
                quoted == Len(v) >= 2 /\ v[1] \in Quotes /\ v[Len(v)] = v[1]
            IN  IF claimed_int THEN a = IntArg(int_value(v))
                ELSE IF float_ok(v) THEN a = FloatArg(float_value(v))
                ELSE IF quoted THEN a = StrArg(SubSeq(v, 2, Len(v) - 1))
                ELSE a = StrArg(v)

\* C13 (amended): the argument is the integer when int() takes the value (decimal
\* digits after an optional "+" or "-"), else the float when float() takes it,
\* else the string without its leading and its trailing quote characters, however
\* many there are and whether or not they are equal.
C13_CoercionIntFloatStrip ==
    tool_requested =>
        \A i \in 1..Len(typed_parts) : sets_argument(typed_parts, i) =>
            LET v == split_value(typed_parts[i])
                a == call.req.arguments[split_key(typed_parts[i])]
            IN  IF int_ok(v) THEN a = IntArg(int_value(v))
                ELSE IF float_ok(v) THEN a = FloatArg(float_value(v))
                ELSE /\ a.type = "str"
                     /\ a.str = <<>> \/ (a.str[1] \notin Quotes /\ a.str[Len(a.str)] \notin Quotes)
                     /\ \E m \in 0..Len(v), n \in 0..Len(v) :
                          /\ m + n <= Len(v)
                          /\ \A k \in 1..m : v[k] \in Quotes
                          /\ \A k \in (Len(v) - n + 1)..Len(v) : v[k] \in Quotes
                          /\ a.str = SubSeq(v, m + 1, Len(v) - n)

\* the value "'a" (a quote on one side only) was passed as the string a
C13_Witness ==
    /\ tool_requested
    /\ line = Some(echo_word \o <<" ", "k", "=", "'", "a">>)
    /\ call.req.arguments = [k \in {<<"k">>} |-> StrArg(<<"a">>)]

\* C14: on the line echo msg="hello world" call_tool is called with the tool name
\* echo and the one argument msg = hello world, and a result that is the single
\* text item T, with no error flag, is printed as the one line T.
C14_QuotedValueWithSpace ==
    (line = Some(echo_word \o <<" ", "m", "s", "g", "=", "\"">> \o hello_world \o <<"\"">>)) =>
        /\ tool_requested =>
              /\ call.req.name = echo_word
              /\ call.req.arguments = [k \in {<<"m", "s", "g">>} |-> StrArg(hello_world)]
        /\ (mpc = "L379" /\ Len(call.out.content) = 1 /\ ~call.out.isError
              /\ call.out.content[1].type = "text") =>
              printed = <<Line("{}", <<call.out.content[1].text>>)>>

\* the places of main() inside the loop of interactive_mode, and after it
InLoop == {"L332", "L334", "L340", "L346", "L349", "L373", "L379", "L384"}
AfterLoop == {"L337", "L382", "unwinding", "returned", "exit1", "cancelled"}
\* u is word in some letter case
spelled(u, word) ==
    /\ Len(u) = Len(word)
    /\ \A i \in 1..Len(word) :
          \E j \in 1..Len(Lowers) : word[i] = Lowers[j] /\ u[i] \in {Lowers[j], Uppers[j]}
blank(l) == \A i \in 1..Len(l) : l[i] \in Whitespace

\* C15: when the line read is empty or only whitespace, no facade method is called,
\* nothing is printed, and main() goes on to read the next line.
C15_BlankLineIgnored ==
    [][/\ (line' # None /\ blank(line'.val)) =>
              /\ mpc' = "L349"
              /\ issued' = 0 /\ call'.st = "idle" /\ outstanding' = 0
              /\ printed' = <<>>
       /\ mpc = "L349" => mpc' = "L334"]_vars

\* a line of two spaces was read and main() is at the "continue" of line 349
C15_Witness ==
    /\ mpc = "L349"
    /\ line = Some(<<" ", " ">>)
    /\ printed = <<>>

\* C16: when the line read is quit or exit in any letter case, the loop is left with
\* no facade method called, and once the loop is left no line is read any more.
C16_QuitEndsLoop ==
    [][/\ (line' # None /\ (spelled(user_input(line'.val), quit_word)
                            \/ spelled(user_input(line'.val), exit_word))) =>
              /\ mpc' \in AfterLoop
              /\ issued' = 0 /\ call'.st = "idle" /\ outstanding' = 0
       /\ mpc \in AfterLoop => (mpc' \in AfterLoop /\ line' = line /\ issued' = issued)]_vars

\* the line Exit was read and the loop is left by the break of line 337
C16_Witness ==
    /\ mpc = "L337"
    /\ line = Some(<<"E", "x", "i", "t">>)
    /\ call.st = "idle"

\* C17 (as claimed): a line that is not blank is classified by its first token: list
\* runs list_tools and no call_tool, quit or exit ends the loop, any other token is
\* the tool name of one call_tool; so call_tool never gets the name list, quit or exit.
C17_ClassifiedByFirstToken ==
    (line # None /\ ~blank(line.val)) =>
        LET first == split(user_input(line.val))[1] IN
        /\ spelled(first, list_word) => (call.st # "idle" /\ call.op = "list_tools")
        /\ (spelled(first, quit_word) \/ spelled(first, exit_word)) =>
              (call.st = "idle" /\ mpc \in AfterLoop)
        /\ tool_requested => call.req.name \notin {list_word, quit_word, exit_word}

\* C17 (amended): a line that is not blank is classified by the whole line without
\* its surrounding whitespace, in any letter case: exactly list runs list_tools and
\* no call_tool, exactly quit or exit ends the loop, and any other line makes one
\* call_tool whose tool name is the first token of the line as typed and whose
\* argument keys are the keys of the key=value tokens after it.
C17_ClassifiedByWholeLine ==
    (line # None /\ ~blank(line.val)) =>
        LET whole == user_input(line.val) IN
        IF spelled(whole, list_word)
        THEN call.st # "idle" /\ call.op = "list_tools" /\ issued = 1
        ELSE IF spelled(whole, quit_word) \/ spelled(whole, exit_word)
        THEN call.st = "idle" /\ issued = 0 /\ mpc \in AfterLoop
        ELSE /\ call.st # "idle" /\ call.op = "call_tool" /\ issued = 1
             /\ tool_requested =>
                   /\ call.req.name = split(whole)[1]
                   /\ DOMAIN call.req.arguments =
                        {split_key(typed_parts[i]) :
                            i \in {k \in 1..Len(typed_parts) : contains(typed_parts[k], "=")}}

\* the line "list a" made a call_tool with the tool name list
C17_Witness ==
    /\ tool_requested
    /\ line = Some(list_word \o <<" ", "a">>)
    /\ call.req.name = list_word

\* C18: when list_tools or call_tool called for a command fails, one error line
\* with the failure is printed, the session and the connect scope stay as they
\* are, and main() reads the next line; the loop is left only by the break after
\* quit or exit, by the break after KeyboardInterrupt, or by cancellation.
C18_FailureKeepsLoop ==
    [][/\ (mpc \in {"L340", "L373"} /\ call' # call /\ call'.st \in {"raised", "rejected"}) =>
              /\ mpc' = "L384"
              /\ printed' = <<Line("Error: {}", <<call'.err>>)>>
              /\ session' = session /\ sstate' = sstate /\ pc' = pc
       /\ mpc = "L384" => (mpc' = "L334" /\ session' = session /\ sstate' = sstate)
       /\ (mpc \in InLoop /\ mpc' \notin InLoop) =>
              \/ mpc = "L334" /\ mpc' \in {"L337", "L382"}
              \/ mpc \in {"L340", "L373"} /\ mpc' = "unwinding" /\ how'[1] = "cancel"]_vars

\* call_tool failed, its error line is printed and the session is still READY
C18_Witness ==
    /\ mpc = "L384"
    /\ call.st = "raised"
    /\ call.op = "call_tool"
    /\ session = Some(1)
    /\ sstate[1] = "READY"

\* C19 (as claimed): a result that is a single text item is printed as that text and
\* nothing else.
C19_OnlyTheText ==
    (mpc = "L379" /\ Len(call.out.content) = 1 /\ call.out.content[1].type = "text") =>
        /\ Len(printed) = 1
        /\ printed[1].fmt = "{}"
        /\ printed[1].args = <<call.out.content[1].text>>

\* C19 (amended): a result is printed as the line "Result:" followed by one line
\* for each item, in the order of the items: a text item as its text alone, any
\* other item as its type in brackets and the item.
C19_HeaderThenItems ==
    mpc = "L379" =>
        /\ Len(printed) = 1 + Len(call.out.content)
        /\ printed[1].fmt = "Result:"
        /\ \A i \in 1..Len(call.out.content) :
              LET c == call.out.content[i] IN
              IF c.type = "text"
              THEN printed[i + 1].fmt = "{}" /\ printed[i + 1].args = <<c.text>>
              ELSE printed[i + 1].fmt = "[{}]: {}" /\ printed[i + 1].args = <<c.type, c>>

\* a result with a text item and then an image item has been printed
C19_Witness ==
    /\ mpc = "L379"
    /\ Len(call.out.content) = 2
    /\ call.out.content[1].type = "text"
    /\ call.out.content[2].type = "image"
    /\ printed[2].fmt = "{}"

\* C20: at no time have two requests of main() been sent and not ended; a request
\* is sent only when none is outstanding.
C20_OneRequestAtATime ==
    /\ outstanding <= 1
    /\ outstanding = 1 => call.st = "awaiting"

\* the request of a command of interactive_mode is the only one outstanding
C20_Witness ==
    /\ mpc = "L373"
    /\ outstanding = 1
    /\ call.st = "awaiting"

\* ---------------------------------------------------------------- C21
\* the lines of main() and of the demos, by the part of the script they are in
ListingLines == {"L416"}
ResourcesLines == {"L426", "L268", "L278", "L279"}
PromptsLines == {"L427", "L299", "L310", "L311"}
FileLines == {"L428", "L209", "L215", "L216", "L225", "L226"}
WebLines == {"L429", "L247"}
DispatcherLines == {"L432"} \cup InLoop
stage(l) ==
    IF l \in ListingLines THEN 0
    ELSE IF l \in ResourcesLines THEN 1
    ELSE IF l \in PromptsLines THEN 2
    ELSE IF l \in FileLines THEN 3
    ELSE IF l \in WebLines THEN 4
    ELSE IF l \in DispatcherLines THEN 5
    ELSE 6
\* where each part begins
first_line(n) ==
    IF n = 1 THEN "L426" ELSE IF n = 2 THEN "L427" ELSE IF n = 3 THEN "L428"
    ELSE IF n = 4 THEN "L429" ELSE "L432"
\* the failure line of each demo
failure_line(n) ==
    IF n = 1 THEN "Resources demo failed: {}" ELSE IF n = 2 THEN "Prompts demo failed: {}"
    ELSE IF n = 3 THEN "File operations demo failed: {}" ELSE "Web search demo failed: {}"
DemoAwaits == {"L268", "L279", "L299", "L311", "L209", "L216", "L226", "L247"}

eof_line == Line("Error: {}", <<"EOF when reading a line">>)

\* C22: when input() meets the end of the input, one error line is printed, no
\* facade method is called, the session and the scope stay as they are and main()
\* calls input() again; from then on every input() ends the same way, so the loop
\* is not left and the connect scope stays open (only an interrupt of the user,
\* which is no input, still breaks the loop).
C22_EndOfInputKeepsLoop ==
    [][/\ (mpc = "L334" /\ eof') =>
              \/ /\ mpc' = "L384"
                 /\ printed' = <<eof_line>>
                 /\ call.st = "idle" /\ call' = call
                 /\ issued' = 0 /\ outstanding' = 0
                 /\ session' = session /\ sstate' = sstate /\ pc' = pc
              \/ eof /\ mpc' = "L382" /\ printed' = printed
       /\ (eof /\ mpc \in InLoop /\ mpc' # "L382") =>
              /\ mpc' \in {"L334", "L384"}
              /\ mpc = "L384" => mpc' = "L334"
              /\ issued' = 0 /\ outstanding' = 0 /\ call'.st = "idle"
              /\ pc'[1] = "L57" /\ sstate'[1] = "READY" /\ session' = Some(1)
              /\ eof']_vars

\* after the end of the input was met and reported, input() is called again
C22_Witness ==
    /\ eof
    /\ mpc = "L334"
    /\ printed = <<>>
    /\ pc[1] = "L57"
    /\ sstate[1] = "READY"

\* ---------------------------------------------------------------- C23
\* some connect scope is open with its handshake done: its with-body is running
body_running == \E c \in Scopes : pc[c] = "L57"
\* the slot holds a session that is open
slot_open == session # None /\ Open(session.val)

\* C23: while some connect scope of the client is open with its handshake done,
\* overlapping and nested scopes included, a facade operation is accepted and its
\* request goes to an open session.
C23_AcceptedWhileAScopeIsOpen ==
    [][(call.st = "idle" /\ call'.st \in {"awaiting", "rejected"} /\ body_running) =>
           (call'.st = "awaiting" /\ slot_open)]_vars

\* C23, supporting: in the runs in which connect scopes never overlap, an
\* operation called while the with-body runs is accepted and goes to the READY
\* session of that scope, and an operation is rejected only when no session of
\* the client is open.
C23_HoldsWithoutOverlap ==
    [][(~overlapped /\ call.st = "idle" /\ call'.st \in {"awaiting", "rejected"}) =>
           /\ body_running => (call'.st = "awaiting" /\ slot_open /\ sstate[session.val] = "READY")
           /\ call'.st = "rejected" => ~has_open_session \/ (\E c \in Scopes : pc[c] \in {"L51", "exiting"})]_vars

\* ---------------------------------------------------------------- C24
\* the place of the first "=" of a token that has one
first_equals(t) == CHOOSE i \in 1..Len(t) : t[i] = "=" /\ \A j \in 1..(i - 1) : t[j] # "="
has_equals(t) == \E i \in 1..Len(t) : t[i] = "="
before_equals(t) == SubSeq(t, 1, first_equals(t) - 1)
after_equals(t) == SubSeq(t, first_equals(t) + 1, Len(t))

\* C24: the arguments passed to call_tool have exactly the keys of the tokens
\* after the tool name that contain "="; a key is the text before the first "=" of
\* its token and its value is made from all the text after that "=", taken from
\* the last token with that key; a token without "=" adds nothing, and no line
\* ends in the error handler without its call having been made and having failed.
C24_ArgumentMap ==
    /\ tool_requested =>
          LET parts == typed_parts
              arguments == call.req.arguments
              pairs == {i \in 1..Len(parts) : has_equals(parts[i])}
          IN  /\ DOMAIN arguments = {before_equals(parts[i]) : i \in pairs}
              /\ \A i \in pairs :
                    (\A j \in pairs : j > i => before_equals(parts[j]) # before_equals(parts[i]))
                        => arguments[before_equals(parts[i])] = coerce(after_equals(parts[i]))
    /\ (mpc = "L384" /\ line # None) => (failed(call) /\ issued = 1)

\* on the line "echo k=1 k=a" the value of k passed is the string a
C24_Witness ==
    /\ tool_requested
    /\ line = Some(echo_word \o <<" ", "k", "=", "1", " ", "k", "=", "a">>)
    /\ call.req.arguments = [k \in {<<"k">>} |-> StrArg(<<"a">>)]

\* ---------------------------------------------------------------- C25
\* what is printed for the items of a result, whatever its error flag
item_line(c) ==
    IF c.type = "text" THEN Line("{}", <<c.text>>) ELSE Line("[{}]: {}", <<c.type, c>>)

\* C25: a result that call_tool returned is printed as "Result:" and its items,
\* the same lines with the error flag set as without it, and no error line; the
\* error line is printed only when call_tool raised.
C25_ErrorFlagNotInspected ==
    [][(mpc = "L373" /\ call' # call) =>
          \/ /\ call'.st = "returned"
             /\ mpc' = "L379"
             /\ printed' = <<Line("Result:", <<>>)>>
                            \o [i \in 1..Len(call'.out.content) |-> item_line(call'.out.content[i])]
             /\ \A i \in 1..Len(printed') : printed'[i].fmt # "Error: {}"
          \/ /\ call'.st = "raised"
             /\ call'.resp.kind = "fault"
             /\ mpc' = "L384"
             /\ printed' = <<Line("Error: {}", <<call'.err>>)>>]_vars

\* a result with the error flag set and a text item has been printed as a result
C25_Witness ==
    /\ mpc = "L379"
    /\ call.st = "returned"
    /\ call.out.isError
    /\ Len(call.out.content) >= 1
    /\ call.out.content[1].type = "text"
    /\ printed[1] = Line("Result:", <<>>)
    /\ printed[2] = Line("{}", <<call.out.content[1].text>>)

\* =============================================== the response schema
\* src/src/scripts/model_ndfc_response_vrf_attachments.py
\* Texts that the code looks into (instanceValues, REQUEST_PATH) are sequences of
\* characters; texts it only compares as a whole are strings.

\* ------------------------------------------------------------ json.loads
\* The decoder of the standard library, for texts without "\u" escapes ("BS"
\* stands for the backspace character).
JsonWhitespace == {" ", "\t", "\n", "\r"}
NonZeroDigits == Digits \ {"0"}
NoJson == [ok |-> FALSE]
Json(v, next) == [ok |-> TRUE, val |-> v, next |-> next]
char_at(s, i) == IF i >= 1 /\ i <= Len(s) THEN s[i] ELSE ""
starts_with(s, i, word) == i + Len(word) - 1 <= Len(s) /\ SubSeq(s, i, i + Len(word) - 1) = word

RECURSIVE skip_whitespace(_, _)
skip_whitespace(s, i) ==
    IF char_at(s, i) \in JsonWhitespace THEN skip_whitespace(s, i + 1) ELSE i
RECURSIVE skip_digits(_, _)
skip_digits(s, i) == IF char_at(s, i) \in Digits THEN skip_digits(s, i + 1) ELSE i

\* the characters a backslash can stand before, and what the pair stands for
Escapes == [x \in {"\"", "\\", "/", "b", "f", "n", "r", "t"} |->
               IF x = "n" THEN "\n" ELSE IF x = "r" THEN "\r" ELSE IF x = "t" THEN "\t"
               ELSE IF x = "b" THEN "BS" ELSE IF x = "f" THEN "\f" ELSE x]

\* scanstring: s[i - 1] is the opening quote; control characters are not allowed
RECURSIVE scan_string(_, _, _)
scan_string(s, i, chars) ==
    IF i > Len(s) THEN NoJson
    ELSE IF s[i] = "\"" THEN Json([kind |-> "str", str |-> chars], i + 1)
    ELSE IF s[i] \in {"\t", "\n", "\r"} THEN NoJson
    ELSE IF s[i] = "\\"
         THEN IF char_at(s, i + 1) \in DOMAIN Escapes
              THEN scan_string(s, i + 2, Append(chars, Escapes[s[i + 1]]))
              ELSE NoJson
    ELSE scan_string(s, i + 1, Append(chars, s[i]))

\* NUMBER_RE: (-?(?:0|[1-9]\d*))(\.\d+)?([eE][-+]?\d+)?; i is at its first character
integer_end(s, i) ==
    LET d == IF char_at(s, i) = "-" THEN i + 1 ELSE i IN
    IF char_at(s, d) = "0" THEN d + 1
    ELSE IF char_at(s, d) \in NonZeroDigits THEN skip_digits(s, d)
    ELSE 0
fraction_end(s, i) ==
    IF char_at(s, i) = "." /\ char_at(s, i + 1) \in Digits THEN skip_digits(s, i + 1) ELSE i
exponent_end(s, i) ==
    LET d == IF char_at(s, i + 1) \in {"+", "-"} THEN i + 2 ELSE i + 1 IN
    IF char_at(s, i) \in {"e", "E"} /\ char_at(s, d) \in Digits THEN skip_digits(s, d) ELSE i
scan_number(s, i) ==
    IF integer_end(s, i) = 0 THEN NoJson
    ELSE LET e == exponent_end(s, fraction_end(s, integer_end(s, i))) IN
         Json([kind |-> "number", text |-> SubSeq(s, i, e - 1)], e)

JsonNull == <<"n", "u", "l", "l">>
JsonTrue == <<"t", "r", "u", "e">>
JsonFalse == <<"f", "a", "l", "s", "e">>
JsonNaN == <<"N", "a", "N">>
JsonInfinity == <<"I", "n", "f", "i", "n", "i", "t", "y">>

\* scan_once, JSONObject and JSONArray of json.scanner and json.decoder
RECURSIVE scan_once(_, _), scan_members(_, _, _), scan_items(_, _, _)
scan_once(s, i) ==
    IF i > Len(s) THEN NoJson
    ELSE IF s[i] = "\"" THEN scan_string(s, i + 1, <<>>)
    ELSE IF s[i] = "{"
         THEN LET b == skip_whitespace(s, i + 1) IN
              IF char_at(s, b) = "}" THEN Json([kind |-> "object", members |-> <<>>], b + 1)
              ELSE scan_members(s, b, <<>>)
    ELSE IF s[i] = "["
         THEN LET b == skip_whitespace(s, i + 1) IN
              IF char_at(s, b) = "]" THEN Json([kind |-> "array", items |-> <<>>], b + 1)
              ELSE scan_items(s, b, <<>>)
    ELSE IF starts_with(s, i, JsonNull) THEN Json([kind |-> "null"], i + 4)
    ELSE IF starts_with(s, i, JsonTrue) THEN Json([kind |-> "bool"], i + 4)
    ELSE IF starts_with(s, i, JsonFalse) THEN Json([kind |-> "bool"], i + 5)
    ELSE IF integer_end(s, i) # 0 THEN scan_number(s, i)
    ELSE IF starts_with(s, i, JsonNaN) THEN Json([kind |-> "number", text |-> JsonNaN], i + 3)
    ELSE IF starts_with(s, i, JsonInfinity) THEN Json([kind |-> "number", text |-> JsonInfinity], i + 8)
    ELSE IF starts_with(s, i, <<"-">> \o JsonInfinity)
         THEN Json([kind |-> "number", text |-> <<"-">> \o JsonInfinity], i + 9)
    ELSE NoJson
\* i is where the name of the next member has to begin
scan_members(s, i, members) ==
    IF char_at(s, i) # "\"" THEN NoJson
    ELSE LET key == scan_string(s, i + 1, <<>>) IN
         IF ~key.ok THEN NoJson
         ELSE LET colon == skip_whitespace(s, key.next) IN
              IF char_at(s, colon) # ":" THEN NoJson
              ELSE LET value == scan_once(s, skip_whitespace(s, colon + 1)) IN
                   IF ~value.ok THEN NoJson
                   ELSE LET e == skip_whitespace(s, value.next)
                            more == Append(members, [key |-> key.val.str, value |-> value.val])
                        IN  IF char_at(s, e) = "}" THEN Json([kind |-> "object", members |-> more], e + 1)
                            ELSE IF char_at(s, e) = "," THEN scan_members(s, skip_whitespace(s, e + 1), more)
                            ELSE NoJson
\* i is where the next item has to begin
scan_items(s, i, items) ==
    LET value == scan_once(s, i) IN
    IF ~value.ok THEN NoJson
    ELSE LET e == skip_whitespace(s, value.next)
             more == Append(items, value.val)
         IN  IF char_at(s, e) = "]" THEN Json([kind |-> "array", items |-> more], e + 1)
             ELSE IF char_at(s, e) = "," THEN scan_items(s, skip_whitespace(s, e + 1), more)
             ELSE NoJson

\* json.loads(s): one value with whitespace around it and nothing after it
loads(s) ==
    LET value == scan_once(s, skip_whitespace(s, 1)) IN
    IF ~value.ok THEN NoJson
    ELSE IF skip_whitespace(s, value.next) # Len(s) + 1 THEN NoJson
    ELSE value

\* the keys of the dict made from a JSON object, and d[key] (the last member
\* with a name is the one the dict keeps)
keys(object) == {object.members[k].key : k \in 1..Len(object.members)}
item(object, key) ==
    LET last == CHOOSE k \in 1..Len(object.members) :
                    /\ object.members[k].key = key
                    /\ \A m \in (k + 1)..Len(object.members) : object.members[m].key # key
    IN  object.members[last].value

\* ------------------------------------------------------------ the models
\* a validator returns its value, or raises
Returned(v) == [raised |-> FALSE, value |-> v]
Raised(type, fmt, args) == [raised |-> TRUE, type |-> type, msg |-> [fmt |-> fmt, args |-> args]]

\* class InstanceValues, lines 15-23: six fields of type str, each with a default
InstanceValuesFields ==
    {<<"l","o","o","p","b","a","c","k","I","d">>,
     <<"l","o","o","p","b","a","c","k","I","p","A","d","d","r","e","s","s">>,
     <<"l","o","o","p","b","a","c","k","I","p","V","6","A","d","d","r","e","s","s">>,
     <<"d","e","v","i","c","e","S","u","p","p","o","r","t","L","3","V","n","i","N","o","V","l","a","n">>,
     <<"s","w","i","t","c","h","R","o","u","t","e","T","a","r","g","e","t","I","m","p","o","r","t","E","v","p","n">>,
     <<"s","w","i","t","c","h","R","o","u","t","e","T","a","r","g","e","t","E","x","p","o","r","t","E","v","p","n">>}

\* "InstanceValues(**parsed)": ** takes a mapping only; a field that is given has
\* to be a string; other names are ignored
InstanceValues(parsed) ==
    IF parsed.kind # "object" THEN "TypeError"
    ELSE IF \E f \in InstanceValuesFields \cap keys(parsed) : item(parsed, f).kind # "str"
         THEN "ValidationError"
    ELSE "ok"

\* LanAttachment.validate_instance_values, lines 45-58.  The ValidationError of
\* InstanceValues is not caught at line 57: it leaves the validator as it is.
validate_instance_values(v) ==
    IF v = None THEN Returned(v)
    ELSE IF ~loads(v.val).ok
         THEN Raised("ValueError", "instanceValues must be valid JSON: {}", <<"JSONDecodeError">>)
    ELSE IF InstanceValues(loads(v.val).val) = "TypeError"
         THEN Raised("ValueError", "instanceValues must be valid JSON: {}", <<"TypeError">>)
    ELSE IF InstanceValues(loads(v.val).val) = "ValidationError"
         THEN Raised("ValidationError", "Input should be a valid string", <<>>)
    ELSE Returned(v)

valid_states == {"IN PROGRESS", "DEPLOYED", "FAILED", "NA", "PENDING"}
common_roles == {"border spine", "spine", "leaf", "border leaf", "super spine"}

\* a variant: a state that is not known is rejected
validate_lan_attach_state_known_only(v) ==
    IF v \notin valid_states
    THEN Raised("ValueError", "lanAttachState is not a known state: {}", <<v>>)
    ELSE Returned(v)

\* LanAttachment.validate_lan_attach_state, lines 70-78
validate_lan_attach_state(v) ==
    IF v \notin valid_states THEN Returned(v) ELSE Returned(v)

\* LanAttachment.validate_switch_role, lines 80-88
validate_switch_role(v) ==
    IF v \notin common_roles THEN Returned(v) ELSE Returned(v)

\* VrfData.validate_lan_attach_list, lines 99-105: "if not v"
validate_lan_attach_list(v) ==
    IF v = <<>> THEN Raised("ValueError", "lanAttachList cannot be empty", <<>>)
    ELSE Returned(v)

\* NexusVrfAttachmentsResponse.validate_method, lines 122-128
validate_method(v) ==
    IF v # "GET" THEN Raised("ValueError", "METHOD must be 'GET' for VRF attachments query", <<>>)
    ELSE Returned(v)

\* a variant: every code of the 2xx class is taken
validate_return_code_2xx(v) ==
    IF v < 200 \/ v > 299 THEN Raised("ValueError", "RETURN_CODE indicates failure: {}", <<v>>)
    ELSE Returned(v)

\* NexusVrfAttachmentsResponse.validate_return_code, lines 130-136
validate_return_code(v) ==
    IF v \notin {200, 201, 202} THEN Raised("ValueError", "RETURN_CODE indicates failure: {}", <<v>>)
    ELSE Returned(v)

\* "sub in s" of two str
is_in(sub, s) == \E k \in 0..(Len(s) - Len(sub)) : SubSeq(s, k + 1, k + Len(sub)) = sub
vrfs_attachments == <<"/","v","r","f","s","/","a","t","t","a","c","h","m","e","n","t","s">>

\* NexusVrfAttachmentsResponse.validate_request_path, lines 138-144
validate_request_path(v) ==
    IF ~is_in(vrfs_attachments, v)
    THEN Raised("ValueError", "REQUEST_PATH must contain '/vrfs/attachments'", <<>>)
    ELSE Returned(v)

\* ----------------------------------------------------------- the inputs
\* longest DATA and longest lanAttachList of the responses given
MaxVrfs == 2
MaxAttachments == 2

\* texts given as instanceValues
JsonTexts ==
    {<<"{", "}">>,
     <<" ", "{", " ", "}", " ">>,
     <<"{", "\"", "l", "o", "o", "p", "b", "a", "c", "k", "I", "d", "\"", ":", "\"", "1", "\"", "}">>,
     <<"{", "\"", "l", "o", "o", "p", "b", "a", "c", "k", "I", "d", "\"", " ", ":", " ", "\"", "1", "\"", ",", " ", "\"", "x", "\"", ":", "[", "1", ",", "n", "u", "l", "l", "]", "}">>,
     <<"{", "\"", "l", "o", "o", "p", "b", "a", "c", "k", "I", "d", "\"", ":", "1", "}">>,
     <<"{", "\"", "l", "o", "o", "p", "b", "a", "c", "k", "I", "d", "\"", ":", "1", ",", "\"", "l", "o", "o", "p", "b", "a", "c", "k", "I", "d", "\"", ":", "\"", "1", "\"", "}">>,
     <<"{", "\"", "x", "\"", ":", "{", "\"", "y", "\"", ":", "-", "1", ".", "5", "e", "3", "}", "}">>,
     <<"[", "]">>,
     <<"[", "{", "}", "]">>,
     <<"\"", "{", "}", "\"">>,
     <<"1", "2">>,
     <<"n", "u", "l", "l">>,
     <<"t", "r", "u", "e">>,
     <<>>,
     <<"{">>,
     <<"{", "}", " ", "x">>,
     <<"{", "'", "l", "o", "o", "p", "b", "a", "c", "k", "I", "d", "'", ":", "'", "1", "'", "}">>,
     <<"{", "\"", "l", "o", "o", "p", "b", "a", "c", "k", "I", "d", "\"", ":", "\"", "1", "\"", ",", "}">>,
     <<"{", "\"", "x", "\"", ":", "0", "1", "}">>}

\* values given as lanAttachState, switchRole, METHOD, RETURN_CODE and REQUEST_PATH
States == {"DEPLOYED", "NA", "deployed", "OUT-OF-SYNC", ""}
Roles == {"leaf", "border spine", "tor", "Leaf"}
Methods == {"GET", "get", "POST", "GET "}
ReturnCodes == {200, 201, 202, 204, 404, 199}
good_path == <<"/", "f", "a", "b", "r", "i", "c", "s", "/", "f", "1", "/", "v", "r", "f", "s", "/", "a", "t", "t", "a", "c", "h", "m", "e", "n", "t", "s", "?", "v", "r", "f", "-", "n", "a", "m", "e", "s", "=", "v", "1">>
RequestPaths ==
    {good_path,
     <<"/", "v", "r", "f", "s", "/", "a", "t", "t", "a", "c", "h", "m", "e", "n", "t", "s">>,
     <<"/", "f", "a", "b", "r", "i", "c", "s", "/", "f", "1", "/", "v", "r", "f", "s", "/", "a", "t", "t", "a", "c", "h", "m", "e", "n", "t">>,
     <<"/", "f", "a", "b", "r", "i", "c", "s", "/", "f", "1", "/", "v", "r", "f", "s", "/", "v", "1", "/", "a", "t", "t", "a", "c", "h", "m", "e", "n", "t", "s">>,
     <<"/", "V", "R", "F", "S", "/", "A", "T", "T", "A", "C", "H", "M", "E", "N", "T", "S">>,
     <<>>}

\* The fields that have no validator (MESSAGE, vrfName, fabricName, ...) are given
\* well-typed and are taken as they are; of them only MESSAGE and vrfName are kept.
Attachment(iv, state, role) == [instanceValues |-> iv, lanAttachState |-> state, switchRole |-> role]
VrfEntry(l) == [lanAttachList |-> l, vrfName |-> "v1"]
Response(data, method, path, code) ==
    [DATA |-> data, MESSAGE |-> "", METHOD |-> method, REQUEST_PATH |-> path, RETURN_CODE |-> code]

LanAttachments ==
    {Attachment(iv, st, r) : iv \in {None} \cup {Some(t) : t \in JsonTexts}, st \in States, r \in Roles}
\* the attachments of the lists of every length
ListAttachments ==
    {Attachment(Some(<<"{", "}">>), "OUT-OF-SYNC", "tor"),
     Attachment(Some(<<"[", "]">>), "DEPLOYED", "leaf")}
null_attachment == Attachment(None, "NA", "spine")
DataLists == SeqsUpTo({VrfEntry(l) : l \in SeqsUpTo(ListAttachments, MaxAttachments)}, MaxVrfs)
SampleData ==
    {<<VrfEntry(<<null_attachment>>)>>,
     <<VrfEntry(<<null_attachment, Attachment(Some(<<"{", "}">>), "NA", "leaf")>>)>>,
     <<VrfEntry(<<null_attachment, Attachment(Some(<<"1">>), "NA", "leaf")>>)>>,
     <<VrfEntry(<<Attachment(Some(<<"{", "\"", "l", "o", "o", "p", "b", "a", "c", "k", "I", "d", "\"", ":", "1", "}">>),
                            "NA", "leaf")>>)>>}
Responses ==
    {Response(d, "GET", good_path, 200) : d \in DataLists}
    \cup {Response(d, "POST", <<>>, 404) : d \in DataLists}
    \cup {Response(d, m, p, c) : d \in SampleData, m \in Methods, p \in RequestPaths, c \in ReturnCodes}
SchemaInputs ==
    {[model |-> "LanAttachment", value |-> a] : a \in LanAttachments}
    \cup {[model |-> "NexusVrfAttachmentsResponse", value |-> r] : r \in Responses}

\* ------------------------------------------------------- model validation
\* pydantic validates the fields in the order of their declaration, runs the
\* validator of a field on its value, and collects what the validators raise.
AttachmentFields == {"instanceValues", "lanAttachState", "switchRole"}
lan_attach_list == vinput.value.DATA[vpc.vrf].lanAttachList
attachment == IF vinput.model = "LanAttachment" THEN vinput.value ELSE lan_attach_list[vpc.att]
Error(field, o) == [field |-> field, vrf |-> vpc.vrf, att |-> vpc.att, type |-> o.type, msg |-> o.msg]
collect(field, o) == IF o.raised THEN Append(errors, Error(field, o)) ELSE errors
\* where the validation of VRF entry i begins
enter_vrf(i) ==
    IF i > Len(vinput.value.DATA) THEN Position("METHOD", 0, 0)
    ELSE IF vinput.value.DATA[i].lanAttachList = <<>> THEN Position("lanAttachList", i, 0)
    ELSE Position("instanceValues", i, 1)

SchemaInit ==
    /\ ClientInit
    /\ DriverOff
    /\ vinput \in SchemaInputs
    /\ vpc = Position("new", 0, 0)
    /\ partial = NothingValidated
    /\ errors = <<>>
    /\ verdict = [st |-> "none"]

\* LanAttachment(**data) or NexusVrfAttachmentsResponse(**data) is called
model_validate ==
    /\ vpc.at = "new"
    /\ vpc' = IF vinput.model = "LanAttachment" THEN Position("instanceValues", 0, 0) ELSE enter_vrf(1)
    /\ UNCHANGED <<vinput, partial, errors, verdict>>

\* the field of a LanAttachment is validated: o is how its validator ended
attachment_field(field, o, then) ==
    /\ vpc.at = field
    /\ errors' = collect(field, o)
    /\ partial' = [partial EXCEPT !.att = IF o.raised THEN @ ELSE set_item(@, field, o.value)]
    /\ vpc' = [vpc EXCEPT !.at = then]
    /\ UNCHANGED <<vinput, verdict>>

\* lines 31 and 45-58
field_instanceValues ==
    attachment_field("instanceValues", validate_instance_values(attachment.instanceValues), "lanAttachState")
\* lines 34 and 70-78
field_lanAttachState ==
    attachment_field("lanAttachState", validate_lan_attach_state(attachment.lanAttachState), "switchRole")
\* lines 37-39 and 80-88
field_switchRole ==
    attachment_field("switchRole", validate_switch_role(attachment.switchRole), "LanAttachment")

\* all fields of the LanAttachment are done: it is the result, or an item of the
\* list of its VRF entry when none of its validators raised
LanAttachment_end ==
    /\ vpc.at = "LanAttachment"
    /\ IF vinput.model = "LanAttachment"
       THEN /\ verdict' = IF errors = <<>> THEN [st |-> "accepted", value |-> partial.att]
                          ELSE [st |-> "rejected"]
            /\ vpc' = Position("done", 0, 0)
            /\ UNCHANGED partial
       ELSE /\ partial' = [partial EXCEPT !.att = << >>,
                               !.atts = IF DOMAIN partial.att = AttachmentFields
                                        THEN Append(@, partial.att) ELSE @]
            /\ vpc' = IF vpc.att < Len(lan_attach_list)
                      THEN Position("instanceValues", vpc.vrf, vpc.att + 1)
                      ELSE Position("lanAttachList", vpc.vrf, 0)
            /\ UNCHANGED verdict
    /\ UNCHANGED <<vinput, errors>>

\* lines 94-105: the items of lanAttachList are done; its validator runs when
\* all of them are valid; then the next VRF entry, or the fields after DATA
field_lanAttachList ==
    /\ vpc.at = "lanAttachList"
    /\ LET o == validate_lan_attach_list(partial.atts)
           items_valid == Len(partial.atts) = Len(lan_attach_list)
       IN  /\ errors' = IF items_valid THEN collect("lanAttachList", o) ELSE errors
           /\ partial' = [partial EXCEPT !.atts = <<>>,
                              !.vrfs = IF items_valid /\ ~o.raised
                                       THEN Append(@, [lanAttachList |-> o.value,
                                                       vrfName |-> vinput.value.DATA[vpc.vrf].vrfName])
                                       ELSE @]
    /\ vpc' = enter_vrf(vpc.vrf + 1)
    /\ UNCHANGED <<vinput, verdict>>

\* a field of the response after DATA is validated
response_field(field, o, then) ==
    /\ vpc.at = field
    /\ errors' = collect(field, o)
    /\ partial' = [partial EXCEPT !.top = IF o.raised THEN @ ELSE set_item(@, field, o.value)]
    /\ vpc' = [vpc EXCEPT !.at = then]
    /\ UNCHANGED <<vinput, verdict>>

\* lines 118 and 122-128
field_METHOD == response_field("METHOD", validate_method(vinput.value.METHOD), "REQUEST_PATH")
\* lines 119 and 138-144
field_REQUEST_PATH ==
    response_field("REQUEST_PATH", validate_request_path(vinput.value.REQUEST_PATH), "RETURN_CODE")
\* lines 120 and 130-136
field_RETURN_CODE ==
    response_field("RETURN_CODE", validate_return_code(vinput.value.RETURN_CODE),
                   "NexusVrfAttachmentsResponse")

\* all fields of the response are done: the instance is made, or ValidationError
\* is raised with the errors collected
NexusVrfAttachmentsResponse_end ==
    /\ vpc.at = "NexusVrfAttachmentsResponse"
    /\ verdict' = IF errors = <<>>
                  THEN [st |-> "accepted",
                        value |-> Response(partial.vrfs, partial.top.METHOD,
                                           partial.top.REQUEST_PATH, partial.top.RETURN_CODE)]
                  ELSE [st |-> "rejected"]
    /\ vpc' = Position("done", 0, 0)
    /\ UNCHANGED <<vinput, partial, errors>>

SchemaNext ==
    /\ \/ model_validate
       \/ field_instanceValues
       \/ field_lanAttachState
       \/ field_switchRole
       \/ LanAttachment_end
       \/ field_lanAttachList
       \/ field_METHOD
       \/ field_REQUEST_PATH
       \/ field_RETURN_CODE
       \/ NexusVrfAttachmentsResponse_end
    /\ UNCHANGED <<session, server_params, scopeVars, call>>
    /\ UNCHANGED driverVars

Schema == SchemaInit /\ [][SchemaNext]_vars

\* ---------------------------------------------------------------- C26
\* the validation has ended
decided == verdict.st # "none"
of_attachment == vinput.model = "LanAttachment"
of_response == vinput.model = "NexusVrfAttachmentsResponse"

\* C26: no value of lanAttachState or switchRole is rejected or changed: no error
\* is ever raised for these fields, their validators hand back the string given,
\* known or not, an attachment whose instanceValues is null is accepted whatever
\* the two strings are, and an accepted attachment and every attachment of an
\* accepted response carry the two strings as they were given.
C26_AnyStateAndRole ==
    /\ \A k \in 1..Len(errors) : errors[k].field \notin {"lanAttachState", "switchRole"}
    /\ \A f \in {"lanAttachState", "switchRole"} :
          f \in DOMAIN partial.att => partial.att[f] = attachment[f]
    /\ (of_attachment /\ decided) =>
          /\ vinput.value.instanceValues = None => verdict.st = "accepted"
          /\ verdict.st = "accepted" =>
                /\ verdict.value.lanAttachState = vinput.value.lanAttachState
                /\ verdict.value.switchRole = vinput.value.switchRole
    /\ (of_response /\ verdict.st = "accepted") =>
          /\ Len(verdict.value.DATA) = Len(vinput.value.DATA)
          /\ \A i \in 1..Len(vinput.value.DATA) :
                LET given == vinput.value.DATA[i].lanAttachList
                    made == verdict.value.DATA[i].lanAttachList
                IN  /\ Len(made) = Len(given)
                    /\ \A j \in 1..Len(given) :
                          /\ made[j].lanAttachState = given[j].lanAttachState
                          /\ made[j].switchRole = given[j].switchRole

\* an attachment with a state and a role that are not among the known ones has
\* been accepted with both as given
C26_Witness ==
    /\ of_attachment
    /\ verdict.st = "accepted"
    /\ vinput.value.lanAttachState = "OUT-OF-SYNC"
    /\ vinput.value.switchRole = "tor"
    /\ vinput.value.lanAttachState \notin valid_states
    /\ vinput.value.switchRole \notin common_roles
    /\ verdict.value.lanAttachState = "OUT-OF-SYNC"
    /\ verdict.value.switchRole = "tor"

\* ---------------------------------------------------------------- C27
\* the text s has the text sub somewhere in it
has_text(s, sub) ==
    \E a \in 0..Len(s) : a + Len(sub) <= Len(s) /\ \A m \in 1..Len(sub) : s[a + m] = sub[m]
\* the text is the JSON text of an object
is_json_object(t) == loads(t).ok /\ loads(t).val.kind = "object"
\* some error collected is the one of this field, at this place, with this message
named(field, vrf, att, fmt) ==
    \E k \in 1..Len(errors) :
        /\ errors[k].field = field
        /\ errors[k].vrf = vrf
        /\ errors[k].att = att
        /\ errors[k].msg.fmt = fmt

\* C27: a response is accepted only if METHOD is "GET", RETURN_CODE is 200, 201
\* or 202, REQUEST_PATH has "/vrfs/attachments" in it, no VRF entry has an empty
\* lanAttachList and every instanceValues that is not null is the JSON text of
\* an object; when one of these fails the response is rejected and the errors
\* raised have the error of that field with its message.
C27_AcceptedOnlyIf ==
    (of_response /\ decided) =>
        LET r == vinput.value
            method_ok == r.METHOD = "GET"
            code_ok == r.RETURN_CODE \in {200, 201, 202}
            path_ok == has_text(r.REQUEST_PATH, vrfs_attachments)
            list_ok(i) == Len(r.DATA[i].lanAttachList) > 0
            values_ok(i, j) ==
                LET v == r.DATA[i].lanAttachList[j].instanceValues IN
                v = None \/ is_json_object(v.val)
        IN  /\ verdict.st \in {"accepted", "rejected"}
            /\ verdict.st = "rejected" <=> errors # <<>>
            /\ verdict.st = "accepted" =>
                  /\ method_ok /\ code_ok /\ path_ok
                  /\ \A i \in 1..Len(r.DATA) :
                        /\ list_ok(i)
                        /\ \A j \in 1..Len(r.DATA[i].lanAttachList) : values_ok(i, j)
            /\ ~method_ok => named("METHOD", 0, 0, "METHOD must be 'GET' for VRF attachments query")
            /\ ~code_ok =>
                  /\ named("RETURN_CODE", 0, 0, "RETURN_CODE indicates failure: {}")
                  /\ \A k \in 1..Len(errors) :
                        errors[k].field = "RETURN_CODE" => errors[k].msg.args = <<r.RETURN_CODE>>
            /\ ~path_ok => named("REQUEST_PATH", 0, 0, "REQUEST_PATH must contain '/vrfs/attachments'")
            /\ \A i \in 1..Len(r.DATA) :
                  /\ ~list_ok(i) => named("lanAttachList", i, 0, "lanAttachList cannot be empty")
                  /\ \A j \in 1..Len(r.DATA[i].lanAttachList) :
                        ~values_ok(i, j) =>
                            named("instanceValues", i, j, "instanceValues must be valid JSON: {}")

\* a response with two VRF entries whose only fault is the empty lanAttachList
\* of the second has been rejected with that one error
C27_Witness ==
    /\ of_response
    /\ verdict.st = "rejected"
    /\ vinput.value.METHOD = "GET"
    /\ vinput.value.RETURN_CODE = 200
    /\ vinput.value.REQUEST_PATH = good_path
    /\ Len(vinput.value.DATA) = 2
    /\ Len(vinput.value.DATA[1].lanAttachList) = 2
    /\ vinput.value.DATA[2].lanAttachList = <<>>
    /\ Len(errors) = 1
    /\ errors[1].field = "lanAttachList"
    /\ errors[1].vrf = 2

====
